---- MODULE Spec2Model ----
(***************************************************************************)
(* Model of the RP2040 SDIO driver of BlueSCSI-v2:                         *)
(*   src/lib/ZuluSCSI_platform_RP2040/rp2040_sdio.cpp   (transfer engine)  *)
(*   src/lib/ZuluSCSI_platform_RP2040/sd_card_sdio.cpp  (card driver)      *)
(*                                                                         *)
(* The C functions are written as operators over a machine record          *)
(*   m = [g |-> the g_sdio struct, h |-> the DMA/PIO hardware the code     *)
(*        drives, b |-> the caller's data buffer, t |-> history of the     *)
(*        run kept for the properties]                                     *)
(* and read top to bottom like the C statements they model.  The actions   *)
(* are the steps of the thread that calls the API, the DMA hardware, the   *)
(* DMA interrupt and the millisecond clock.                                *)
(***************************************************************************)
EXTENDS Integers, Sequences, FiniteSets, TLC

(***************************************************************************)
(* Bounds of the model.                                                    *)
(***************************************************************************)
\* SDIO_MAX_BLOCKS of the source is 256; the model checks a scaled-down table.
SDIO_MAX_BLOCKS == 3
\* Number of 32-bit words in one data block (128 in the source).
BlockWords == 1
\* Number of different block contents the card and the caller can supply.
NumData == 2
\* Number of transfer sessions armed in one run.
MaxSessions == 1
\* Number of clock advances in one run.
MaxTicks == 2
\* Largest command index given to a command function (6-bit field).
MaxIndex == 63
\* Spin budget of the completion handlers (int maxwait = 1000 in the source).
MaxWait == 2
\* Largest number of words handed to the data checksum.
MaxWords == 3
\* Number of card operations in one run.
MaxOps == 2

(***************************************************************************)
(* Program constants.                                                      *)
(***************************************************************************)
TransferTimeoutMs == 1000
BlockBytes == 512
\* the window a command waits for its reply, in ms
CommandTimeoutMs == 2
\* entries of the data state machine's TX FIFO with PIO_FIFO_JOIN_TX
TxFifoDepth == 8
\* the level the handler's spin compares the TX FIFO with
TxFifoWaitLevel == 5

(***************************************************************************)
(* Fixed-width unsigned integers.  A 32-bit or 64-bit value is a sequence  *)
(* of 4-bit nibbles, most significant first (8 or 16 of them): every shift *)
(* of the checksum code is a multiple of 4 bits.  The millisecond clock is *)
(* a pair <<high 16 bits, low 16 bits>>.                                   *)
(***************************************************************************)
Two16 == 2 ^ 16

Xor4(a, b) ==
    LET bit(x, i) == (x \div (2 ^ i)) % 2
    IN  ((bit(a, 0) + bit(b, 0)) % 2)
      + ((bit(a, 1) + bit(b, 1)) % 2) * 2
      + ((bit(a, 2) + bit(b, 2)) % 2) * 4
      + ((bit(a, 3) + bit(b, 3)) % 2) * 8

\* x ^ y for two values of the same width
XorN(x, y) == [i \in 1..Len(x) |-> Xor4(x[i], y[i])]

\* x << (4*k), kept at the width of x
ShlN(x, k) == [i \in 1..Len(x) |-> IF i + k <= Len(x) THEN x[i + k] ELSE 0]

\* x >> (4*k), kept at the width of x
ShrN(x, k) == [i \in 1..Len(x) |-> IF i - k >= 1 THEN x[i - k] ELSE 0]

\* (uint32_t) x of a 64-bit x: the low 8 nibbles
Low32(x) == [i \in 1..8 |-> x[i + 8]]

\* (uint64_t) x of a 32-bit x
Ext64(x) == [i \in 1..16 |-> IF i <= 8 THEN 0 ELSE x[i - 8]]

Zero64 == [i \in 1..16 |-> 0]

\* __builtin_bswap32: the four bytes (nibble pairs) in reverse order
bswap32(x) == <<x[7], x[8], x[5], x[6], x[3], x[4], x[1], x[2]>>

\* uint32_t arithmetic of the millisecond clock
Add32(a, n) ==
    LET lo == a[2] + n
    IN  <<(a[1] + (lo \div Two16)) % Two16, lo % Two16>>

Sub32(a, b) ==
    LET lo == a[2] - b[2]
        borrow == IF lo < 0 THEN 1 ELSE 0
    IN  <<(a[1] - b[1] - borrow + Two16) % Two16, (lo + Two16) % Two16>>

\* a > n for a 32-bit a and a constant n below 2^16
Gt32(a, n) == a[1] > 0 \/ a[2] > n

(***************************************************************************)
(* Bytes are numbers 0..255.  A 32-bit word of the command channel is its  *)
(* four bytes, most significant first.                                     *)
(***************************************************************************)
Bit(x, i) == (x \div (2 ^ i)) % 2

\* a ^ b for nibbles, tabulated: Xor4Table[a + 1][b + 1] = Xor4(a, b)
Xor4Table ==
    <<
        << 0,  1,  2,  3,  4,  5,  6,  7,  8,  9, 10, 11, 12, 13, 14, 15>>,
        << 1,  0,  3,  2,  5,  4,  7,  6,  9,  8, 11, 10, 13, 12, 15, 14>>,
        << 2,  3,  0,  1,  6,  7,  4,  5, 10, 11,  8,  9, 14, 15, 12, 13>>,
        << 3,  2,  1,  0,  7,  6,  5,  4, 11, 10,  9,  8, 15, 14, 13, 12>>,
        << 4,  5,  6,  7,  0,  1,  2,  3, 12, 13, 14, 15,  8,  9, 10, 11>>,
        << 5,  4,  7,  6,  1,  0,  3,  2, 13, 12, 15, 14,  9,  8, 11, 10>>,
        << 6,  7,  4,  5,  2,  3,  0,  1, 14, 15, 12, 13, 10, 11,  8,  9>>,
        << 7,  6,  5,  4,  3,  2,  1,  0, 15, 14, 13, 12, 11, 10,  9,  8>>,
        << 8,  9, 10, 11, 12, 13, 14, 15,  0,  1,  2,  3,  4,  5,  6,  7>>,
        << 9,  8, 11, 10, 13, 12, 15, 14,  1,  0,  3,  2,  5,  4,  7,  6>>,
        <<10, 11,  8,  9, 14, 15, 12, 13,  2,  3,  0,  1,  6,  7,  4,  5>>,
        <<11, 10,  9,  8, 15, 14, 13, 12,  3,  2,  1,  0,  7,  6,  5,  4>>,
        <<12, 13, 14, 15,  8,  9, 10, 11,  4,  5,  6,  7,  0,  1,  2,  3>>,
        <<13, 12, 15, 14,  9,  8, 11, 10,  5,  4,  7,  6,  1,  0,  3,  2>>,
        <<14, 15, 12, 13, 10, 11,  8,  9,  6,  7,  4,  5,  2,  3,  0,  1>>,
        <<15, 14, 13, 12, 11, 10,  9,  8,  7,  6,  5,  4,  3,  2,  1,  0>>
    >>

\* a ^ b, a | b, a & b for bytes
Xor8Fn ==
    [a \in 0..255 |-> [b \in 0..255 |->
        Xor4Table[(a \div 16) + 1][(b \div 16) + 1] * 16
            + Xor4Table[(a % 16) + 1][(b % 16) + 1]]]

Xor8(a, b) == Xor8Fn[a][b]

RECURSIVE Or8From(_, _, _)
Or8From(a, b, i) ==
    IF i > 7 THEN 0
    ELSE (IF Bit(a, i) = 1 \/ Bit(b, i) = 1 THEN 2 ^ i ELSE 0) + Or8From(a, b, i + 1)

Or8(a, b) == Or8From(a, b, 0)

RECURSIVE And8From(_, _, _)
And8From(a, b, i) ==
    IF i > 7 THEN 0
    ELSE (IF Bit(a, i) = 1 /\ Bit(b, i) = 1 THEN 2 ^ i ELSE 0) + And8From(a, b, i + 1)

And8(a, b) == And8From(a, b, 0)

(***************************************************************************)
(* Checksum algorithms.                                                    *)
(***************************************************************************)
\* Table lookup for the CRC-7 of command packets; entry b of the source is
\* crc7_table[b + 1].
crc7_table ==
    <<
         0,  18,  36,  54,  72,  90, 108, 126, 144, 130, 180, 166, 216, 202, 252, 238,
        50,  32,  22,   4, 122, 104,  94,  76, 162, 176, 134, 148, 234, 248, 206, 220,
       100, 118,  64,  82,  44,  62,   8,  26, 244, 230, 208, 194, 188, 174, 152, 138,
        86,  68, 114,  96,  30,  12,  58,  40, 198, 212, 226, 240, 142, 156, 170, 184,
       200, 218, 236, 254, 128, 146, 164, 182,  88,  74, 124, 110,  16,   2,  52,  38,
       250, 232, 222, 204, 178, 160, 150, 132, 106, 120,  78,  92,  34,  48,   6,  20,
       172, 190, 136, 154, 228, 246, 192, 210,  60,  46,  24,  10, 116, 102,  80,  66,
       158, 140, 186, 168, 214, 196, 242, 224,  14,  28,  42,  56,  70,  84,  98, 112,
       130, 144, 166, 180, 202, 216, 238, 252,  18,   0,  54,  36,  90,  72, 126, 108,
       176, 162, 148, 134, 248, 234, 220, 206,  32,  50,   4,  22, 104, 122,  76,  94,
       230, 244, 194, 208, 174, 188, 138, 152, 118, 100,  82,  64,  62,  44,  26,   8,
       212, 198, 240, 226, 156, 142, 184, 170,  68,  86,  96, 114,  12,  30,  40,  58,
        74,  88, 110, 124,   2,  16,  38,  52, 218, 200, 254, 236, 146, 128, 182, 164,
       120, 106,  92,  78,  48,  34,  20,   6, 232, 250, 204, 222, 160, 178, 132, 150,
        46,  60,  10,  24, 102, 116,  66,  80, 190, 172, 154, 136, 246, 228, 210, 192,
        28,  14,  56,  42,  84,  70, 112,  98, 140, 158, 168, 186, 196, 214, 224, 242
    >>

\* A CRC step that forgets the bytes before: a variant the round trip of
\* the reply codec must tell apart from crc7_update.
crc7_update_last_byte_only(crc, byte) == crc7_table[byte + 1]

\* crc = crc7_table[crc ^ byte]
crc7_update(crc, byte) == crc7_table[Xor8(crc, byte) + 1]

\* the same, repeated for every byte of a sequence
RECURSIVE crc7_bytes(_, _, _)
crc7_bytes(crc, bytes, k) ==
    IF k > Len(bytes) THEN crc
    ELSE [next \in 0..255 |-> crc7_bytes(next, bytes, k + 1)][crc7_update(crc, bytes[k])]

\* The checksum loop without the byte swap: a variant the comparison with
\* the per-line CRC16 must tell apart from crc16_loop.
RECURSIVE crc16_loop_no_bswap(_, _, _)
crc16_loop_no_bswap(crc, data, k) ==
    IF k > Len(data) THEN crc
    ELSE
      LET data_in   == data[k]
          data_out0 == Low32(ShrN(crc, 8))
          crc1      == ShlN(crc, 8)
          data_out1 == XorN(data_out0, ShrN(data_out0, 4))
          data_out2 == XorN(data_out1, ShrN(data_in, 4))
          xorred    == Ext64(XorN(data_out2, data_in))
          crc2      == XorN(crc1, xorred)
          crc3      == XorN(crc2, ShlN(xorred, 5))
          crc4      == XorN(crc3, ShlN(xorred, 12))
      IN  crc16_loop_no_bswap(crc4, data, k + 1)

RECURSIVE crc16_loop(_, _, _)
crc16_loop(crc, data, k) ==
    IF k > Len(data) THEN crc
    ELSE
      LET data_in   == bswap32(data[k])
          data_out0 == Low32(ShrN(crc, 8))
          crc1      == ShlN(crc, 8)
          data_out1 == XorN(data_out0, ShrN(data_out0, 4))
          data_out2 == XorN(data_out1, ShrN(data_in, 4))
          xorred    == Ext64(XorN(data_out2, data_in))
          crc2      == XorN(crc1, xorred)
          crc3      == XorN(crc2, ShlN(xorred, 5))
          crc4      == XorN(crc3, ShlN(xorred, 12))
      IN  crc16_loop(crc4, data, k + 1)

sdio_crc16_4bit_checksum(data, num_words) ==
    crc16_loop(Zero64, SubSeq(data, 1, num_words), 1)

(***************************************************************************)
(* Data.  A block's content is one of NumData word sequences; the state    *)
(* holds its number.  Content 1 is the all-zero block, content k has       *)
(* k - 1 in the low nibble of every word.                                  *)
(***************************************************************************)
DataSet == 1..NumData

BlockData(k) == [w \in 1..BlockWords |-> <<0, 0, 0, 0, 0, 0, 0, k - 1>>]

\* The checksum of each content, as the code computes it.
CrcOf == [k \in DataSet |-> sdio_crc16_4bit_checksum(BlockData(k), BlockWords)]

Blocks == 0..(SDIO_MAX_BLOCKS - 1)

\* The content of block i on the card and in a buffer the caller hands in
\* for transmission, and what a buffer holds when the block arrived damaged.
BlockContent(i) == (i % NumData) + 1

Corrupted(k) == (k % NumData) + 1

VARIABLES
    g_sdio,         \* the driver's global struct
    hw,             \* DMA channel, data state machine, build and CPU halt flag
    buffer,         \* contents of the caller's data buffer, per block
    trace,          \* history of the run, read only by the properties
    pc,             \* where the calling thread is
    local,          \* locals of the function the thread is in
    ret,            \* status returned by the last finished API call
    bytes_complete, \* *bytes_complete as last written by a poll
    vectactive,     \* SCB->ICSR VECTACTIVE != 0: the CPU runs inside a handler
    millis,         \* the millisecond clock, 32 bits
    cmd,            \* the command channel and the command call in progress
    calc,           \* a call of sdio_crc16_4bit_checksum: its input and result
    card,           \* the SdioCard driver: the operation in progress
    fifo,           \* the TX FIFO of the data state machine in rp2040_sdio_tx_irq
    timer           \* a session timed against the clock: the time truly elapsed

vars == <<g_sdio, hw, buffer, trace, pc, local, ret, bytes_complete, vectactive, millis,
          cmd, calc, card, fifo, timer>>

\* what the steps of the transfer engine leave alone
upper_vars == <<cmd, calc, card, fifo, timer>>

\* what the steps of other layers leave alone
engine_vars == <<g_sdio, buffer, trace, pc, local, ret, bytes_complete, vectactive>>

Machine == [g |-> g_sdio, h |-> hw, b |-> buffer, t |-> trace]

Commit(m) ==
    /\ g_sdio' = m.g
    /\ hw' = m.h
    /\ buffer' = m.b
    /\ trace' = m.t


(***************************************************************************)
(* Status codes and states of the source.                                  *)
(***************************************************************************)
States == {"SDIO_IDLE", "SDIO_RX", "SDIO_TX"}

Terminal == {"SDIO_OK", "SDIO_ERR_DATA_CRC", "SDIO_ERR_DATA_TIMEOUT"}

(***************************************************************************)
(* assert(cond): a build with assertions stops the program when cond is    *)
(* false, a build with NDEBUG goes on.  The history notes every assertion  *)
(* that was false.                                                         *)
(***************************************************************************)
check(m, cond) ==
    IF cond THEN m
    ELSE [m EXCEPT !.t.assert_violated = TRUE, !.h.halted = ~m.h.ndebug]

\* dma_hw->ints0 / ints1 bit of the channel: the raw completion flag masked
\* by the enable bit of that interrupt line
INTS0(h) == h.dma_intr /\ h.dma_inte0

INTS1(h) == h.dma_intr /\ h.dma_inte1

\* A timeout kept as a deadline, compared without regard to the wrap of the
\* clock: a variant the exactness of the timeout must tell apart from
\* Expired.
Expired_deadline_compare(g, now) ==
    LET deadline == Add32(g.transfer_start_time, TransferTimeoutMs)
    IN  now[1] > deadline[1] \/ (now[1] = deadline[1] /\ now[2] > deadline[2])

\* (uint32_t)(millis() - transfer_start_time) > 1000
Expired(g, now) == Gt32(Sub32(now, g.transfer_start_time), TransferTimeoutMs)

\* sdio_crc16_4bit_checksum(g_sdio.data_buf + blockidx * 128, 128)
block_crc(m, blockidx) ==
    IF blockidx \in Blocks THEN CrcOf[m.b[blockidx]] ELSE Zero64

(***************************************************************************)
(* Basic SDIO command execution.  The functions are operators over         *)
(*   x = [c |-> the command channel and the call in progress (cmd),        *)
(*        h |-> the DMA/PIO hardware (hw)].                                *)
(* A word is <<byte 3, byte 2, byte 1, byte 0>>.                           *)
(***************************************************************************)
CmdStatuses == {"SDIO_OK", "SDIO_ERR_RESPONSE_TIMEOUT", "SDIO_ERR_RESPONSE_CRC",
                "SDIO_ERR_RESPONSE_CODE"}

pio_sm_clear_fifos(x) == [x EXCEPT !.c.tx_fifo = <<>>, !.c.rx_fifo = <<>>]

\* Command words without the host-to-card direction bit: a variant the
\* frame check must tell apart from command_words.
command_words_no_direction_bit(command, arg, response_bits) ==
    LET word0 == <<47, command, arg[1], arg[2]>>
        word1 == <<arg[3], arg[4], 1,
                   IF response_bits # 0 THEN response_bits - 1 ELSE 0>>
        crc == crc7_bytes(0, <<word0[2], word0[3], word0[4], word1[1], word1[2]>>, 1)
    IN  <<word0, [word1 EXCEPT ![3] = Or8(@, crc)]>>

\* sdio_send_command, lines 117-143: the two words of the command
command_words(command, arg, response_bits) ==
    LET word0 == <<47, Or8(64, command), arg[1], arg[2]>>
        word1 == <<arg[3], arg[4], 1,
                   IF response_bits # 0 THEN response_bits - 1 ELSE 0>>
        crc == crc7_bytes(0, <<word0[2], word0[3], word0[4], word1[1], word1[2]>>, 1)
    IN  <<word0, [word1 EXCEPT ![3] = Or8(@, crc)]>>

\* the words are queued and the state machine leaves its entry point
sdio_send_command(x, command, arg, response_bits) ==
    [pio_sm_clear_fifos(x) EXCEPT !.c.tx_fifo = command_words(command, arg, response_bits),
                                  !.c.sm = "run"]

\* A window that closes one millisecond early: a variant the timeout of the
\* command functions must tell apart from CommandExpired.
CommandExpired_at_window(c, now) == Gt32(Sub32(now, c.start), CommandTimeoutMs - 1)

\* (uint32_t)(millis() - start) > 2
CommandExpired(c, now) == Gt32(Sub32(now, c.start), CommandTimeoutMs)

\* Reset the state machine program: clear the FIFOs, jump to the entry point
command_recover(x) == [pio_sm_clear_fifos(x) EXCEPT !.c.sm = "entry"]

\* rp2040_sdio_command_R1, the loop condition
R1_waiting(x) == Len(x.c.rx_fifo) < (IF x.c.want THEN 2 ELSE 1)

\* rp2040_sdio_command_R1, lines 160-171
R1_timeout(x) ==
    [command_recover(x) EXCEPT !.c.status = "SDIO_ERR_RESPONSE_TIMEOUT"]

\* A reply reader that looks at the echoed index before the CRC: a variant
\* the classification of replies must tell apart from R1_read.
R1_read_index_first(x) ==
    IF x.c.want
    THEN LET resp0 == x.c.rx_fifo[1]
             resp1 == x.c.rx_fifo[2]
             x1 == [x EXCEPT !.c.rx_fifo = Tail(Tail(@))]
             crc == crc7_bytes(0, <<resp0[1], resp0[2], resp0[3], resp0[4], resp1[3]>>, 1)
             actual_crc == And8(resp1[4], 254)
             response_cmd == resp0[1]
         IN  IF response_cmd # x.c.command /\ x.c.command # 41
             THEN [x1 EXCEPT !.c.status = "SDIO_ERR_RESPONSE_CODE"]
             ELSE IF crc # actual_crc
             THEN [x1 EXCEPT !.c.status = "SDIO_ERR_RESPONSE_CRC"]
             ELSE [x1 EXCEPT !.c.response = <<resp0[2], resp0[3], resp0[4], resp1[3]>>,
                             !.c.status = "SDIO_OK"]
    ELSE [x EXCEPT !.c.rx_fifo = Tail(@), !.c.status = "SDIO_OK"]

\* rp2040_sdio_command_R1, lines 174-211
R1_read(x) ==
    IF x.c.want
    THEN LET resp0 == x.c.rx_fifo[1]
             resp1 == x.c.rx_fifo[2]
             x1 == [x EXCEPT !.c.rx_fifo = Tail(Tail(@))]
             crc == crc7_bytes(0, <<resp0[1], resp0[2], resp0[3], resp0[4], resp1[3]>>, 1)
             actual_crc == And8(resp1[4], 254)
             response_cmd == resp0[1]
         IN  IF crc # actual_crc
             THEN [x1 EXCEPT !.c.status = "SDIO_ERR_RESPONSE_CRC"]
             ELSE IF response_cmd # x.c.command /\ x.c.command # 41
             THEN [x1 EXCEPT !.c.status = "SDIO_ERR_RESPONSE_CODE"]
             ELSE [x1 EXCEPT !.c.response = <<resp0[2], resp0[3], resp0[4], resp1[3]>>,
                             !.c.status = "SDIO_OK"]
    ELSE [x EXCEPT !.c.rx_fifo = Tail(@), !.c.status = "SDIO_OK"]

\* rp2040_sdio_command_R1, lines 153-157
R1_start(x, now) ==
    [sdio_send_command(x, x.c.command, x.c.arg, IF x.c.want THEN 48 ELSE 0)
        EXCEPT !.c.start = now]

\* rp2040_sdio_command_R2, lines 216-227: the DMA is set to move five words
\* from the RX FIFO to response_buf and started, then the command is sent
R2_start(x, now) ==
    LET x1 == [pio_sm_clear_fifos(x) EXCEPT !.c.response_buf = <<>>,
                                           !.h.dma_busy = TRUE,
                                           !.h.dma_dir = "cmd"]
    IN  [sdio_send_command(x1, x.c.command, x.c.arg, 136) EXCEPT !.c.start = now]

R2_waiting(x) == x.h.dma_busy

\* A timeout of the long reply that leaves the DMA running: a variant the
\* recovery of the command channel must tell apart from R2_timeout.
R2_timeout_no_abort(x) ==
    [command_recover(x) EXCEPT !.c.status = "SDIO_ERR_RESPONSE_TIMEOUT"]

\* rp2040_sdio_command_R2, lines 231-243
R2_timeout(x) ==
    [command_recover([x EXCEPT !.h.dma_busy = FALSE])
        EXCEPT !.c.status = "SDIO_ERR_RESPONSE_TIMEOUT"]

\* rp2040_sdio_command_R2, lines 246-287
R2_read(x) ==
    LET buf == x.c.response_buf
        response == <<buf[1][2], buf[1][3], buf[1][4],
                      buf[2][1], buf[2][2], buf[2][3], buf[2][4],
                      buf[3][1], buf[3][2], buf[3][3], buf[3][4],
                      buf[4][1], buf[4][2], buf[4][3], buf[4][4],
                      buf[5][4]>>
        x1 == [x EXCEPT !.h.dma_busy = FALSE, !.c.response16 = response]
        crc == crc7_bytes(0, SubSeq(response, 1, 15), 1)
        actual_crc == And8(response[16], 254)
        response_cmd == buf[1][1]
    IN  IF crc # actual_crc
        THEN [x1 EXCEPT !.c.status = "SDIO_ERR_RESPONSE_CRC"]
        ELSE IF response_cmd # 63
        THEN [x1 EXCEPT !.c.status = "SDIO_ERR_RESPONSE_CODE"]
        ELSE [x1 EXCEPT !.c.status = "SDIO_OK"]

\* rp2040_sdio_command_R3, lines 293-296
R3_start(x, now) ==
    [sdio_send_command(x, x.c.command, x.c.arg, 48) EXCEPT !.c.start = now]

R3_waiting(x) == Len(x.c.rx_fifo) < 2

\* rp2040_sdio_command_R3, lines 299-310
R3_timeout(x) ==
    [command_recover(x) EXCEPT !.c.status = "SDIO_ERR_RESPONSE_TIMEOUT"]

\* A reader of the short reply that checks the CRC7 as R1 does: a variant
\* the properties of R3 must tell apart from R3_read.
R3_read_crc_checked(x) ==
    LET resp0 == x.c.rx_fifo[1]
        resp1 == x.c.rx_fifo[2]
        x1 == [x EXCEPT !.c.rx_fifo = Tail(Tail(@))]
        crc == crc7_bytes(0, <<resp0[1], resp0[2], resp0[3], resp0[4], resp1[3]>>, 1)
    IN  IF crc # And8(resp1[4], 254)
        THEN [x1 EXCEPT !.c.status = "SDIO_ERR_RESPONSE_CRC"]
        ELSE [x1 EXCEPT !.c.response = <<resp0[2], resp0[3], resp0[4], resp1[3]>>,
                        !.c.status = "SDIO_OK"]

\* rp2040_sdio_command_R3, lines 313-319
R3_read(x) ==
    LET resp0 == x.c.rx_fifo[1]
        resp1 == x.c.rx_fifo[2]
    IN  [x EXCEPT !.c.rx_fifo = Tail(Tail(@)),
                  !.c.response = <<resp0[2], resp0[3], resp0[4], resp1[3]>>,
                  !.c.status = "SDIO_OK"]

(***************************************************************************)
(* Data reception from SD card                                             *)
(***************************************************************************)
sdio_start_next_block_rx(m) ==
    LET m1 == check(m, m.g.blocks_done < m.g.total_blocks)
    IN  IF m1.h.halted THEN m1
        ELSE [m1 EXCEPT !.h.sm_enabled = TRUE,
                        !.h.dma_busy = TRUE,
                        !.h.dma_block = m.g.blocks_done]

\* A verification that gives the session up at the first mismatch: a
\* variant the handling of checksum errors must tell apart from
\* sdio_verify_rx_checksums.
RECURSIVE sdio_verify_rx_checksums_abort(_, _)
sdio_verify_rx_checksums_abort(m, maxcount) ==
    IF m.g.blocks_checksumed < m.g.blocks_done /\ maxcount > 0
    THEN LET blockidx == m.g.blocks_checksumed
             checksum == block_crc(m, blockidx)
             expected == m.g.block_checksums[blockidx]
             m1 == [m EXCEPT !.g.blocks_checksumed = @ + 1]
         IN  IF checksum # expected
             THEN [m1 EXCEPT !.g.checksum_errors = @ + 1,
                             !.g.transfer_state = "SDIO_IDLE",
                             !.h.dma_busy = FALSE]
             ELSE sdio_verify_rx_checksums_abort(m1, maxcount - 1)
    ELSE m

\* A verification that runs up to total_blocks instead of blocks_done: a
\* variant the order of reception and verification must tell apart from
\* sdio_verify_rx_checksums.
RECURSIVE sdio_verify_rx_checksums_to_total(_, _)
sdio_verify_rx_checksums_to_total(m, maxcount) ==
    IF m.g.blocks_checksumed < m.g.total_blocks /\ maxcount > 0
    THEN LET blockidx == m.g.blocks_checksumed
             checksum == block_crc(m, blockidx)
             expected == m.g.block_checksums[blockidx]
             m1 == [m EXCEPT !.g.blocks_checksumed = @ + 1]
             m2 == IF checksum # expected
                   THEN [m1 EXCEPT !.g.checksum_errors = @ + 1]
                   ELSE m1
         IN  sdio_verify_rx_checksums_to_total(m2, maxcount - 1)
    ELSE m

RECURSIVE sdio_verify_rx_checksums(_, _)
sdio_verify_rx_checksums(m, maxcount) ==
    IF m.g.blocks_checksumed < m.g.blocks_done /\ maxcount > 0
    THEN LET blockidx == m.g.blocks_checksumed
             checksum == block_crc(m, blockidx)
             expected == m.g.block_checksums[blockidx]
             m1 == [m EXCEPT !.g.blocks_checksumed = @ + 1]
             m2 == IF checksum # expected
                   THEN [m1 EXCEPT !.g.checksum_errors = @ + 1]
                   ELSE m1
         IN  sdio_verify_rx_checksums(m2, maxcount - 1)
    ELSE m

rp2040_sdio_rx_irq(m) ==
    LET done == m.g.blocks_done
        \* dma_hw->ints1 = 1 << SDIO_DMA_CH clears the channel's raw flag
        m1 == [m EXCEPT !.h.dma_intr = FALSE,
                        !.t.handler_runs = @ + 1,
                        !.t.oob = @ \/ done \notin Blocks]
        \* crc0, crc1: the two words the state machine left in the RX FIFO
        m2 == [m1 EXCEPT !.g.block_checksums =
                             IF done \in Blocks
                             THEN [@ EXCEPT ![done] = m.h.rx_crc] ELSE @,
                         !.g.blocks_done = done + 1]
    IN  IF m2.g.blocks_done < m2.g.total_blocks
        THEN sdio_start_next_block_rx(m2)
        ELSE [m2 EXCEPT !.g.transfer_state = "SDIO_IDLE",
                        !.t.last_fired = TRUE]

\* History of a run: a new session starts.
NewSession(t, dir) ==
    [t EXCEPT !.sessions = @ + 1, !.dir = dir, !.open = TRUE,
              !.dma_events = 0, !.handler_runs = 0, !.last_fired = FALSE,
              !.computed = {}, !.timeline = <<>>,
              !.sent_uncomputed = FALSE, !.assert_violated = FALSE]

rp2040_sdio_rx_start(m, num_blocks, now, in_handler) ==
    LET m1 == check([m EXCEPT !.t = NewSession(@, "rx")],
                    num_blocks <= SDIO_MAX_BLOCKS)
        m2 == [m1 EXCEPT !.g.transfer_state = "SDIO_RX",
                         !.g.transfer_start_time = now,
                         !.g.blocks_done = 0,
                         !.g.total_blocks = num_blocks,
                         !.g.blocks_checksumed = 0,
                         !.g.checksum_errors = 0,
                         !.g.inside_irq_handler = in_handler,
                         \* pio_sm_init (FIFOs cleared), pindirs in, DMA
                         \* configured, not started
                         !.h.rx_crc = Zero64,
                         !.h.sm_enabled = FALSE,
                         !.h.pins_out = FALSE,
                         !.h.dma_dir = "rx"]
    IN  IF m1.h.halted THEN m1 ELSE sdio_start_next_block_rx(m2)

\* rp2040_sdio_rx_poll, lines 428-432: manual dispatch of the handler
rx_poll_dispatch(m) ==
    IF m.g.inside_irq_handler /\ INTS0(m.h)
    THEN rp2040_sdio_rx_irq(m)
    ELSE m

\* lines 434-437: the value stored in *bytes_complete
poll_bytes(m) == m.g.blocks_done * BlockBytes

\* A poll that never looks at transfer_state before the timeout: a variant
\* the properties of the poll must tell apart from rx_poll_decide.
rx_poll_decide_no_idle_test(m, now) ==
    IF Expired(m.g, now)
    THEN [m |-> m, status |-> "SDIO_ERR_DATA_TIMEOUT"]
    ELSE [m |-> sdio_verify_rx_checksums(m, 1), status |-> "SDIO_BUSY"]

\* A poll that gives the session up instead of reporting it busy: a variant
\* the frame of the poll must tell apart from rx_poll_decide.
rx_poll_decide_busy_gives_up(m, now) ==
    IF m.g.transfer_state = "SDIO_IDLE"
    THEN LET m1 == sdio_verify_rx_checksums(m, m.g.total_blocks)
         IN  [m |-> m1,
              status |-> IF m1.g.checksum_errors = 0
                         THEN "SDIO_OK" ELSE "SDIO_ERR_DATA_CRC"]
    ELSE IF Expired(m.g, now)
    THEN [m |-> m, status |-> "SDIO_ERR_DATA_TIMEOUT"]
    ELSE [m |-> [sdio_verify_rx_checksums(m, 1) EXCEPT
                     !.g.transfer_state = "SDIO_IDLE", !.h.dma_busy = FALSE],
          status |-> "SDIO_BUSY"]

\* A poll that verifies in its idle time every block received so far: a
\* variant the one-block budget of a busy poll must tell apart from
\* rx_poll_decide.
rx_poll_decide_busy_verifies_all(m, now) ==
    IF m.g.transfer_state = "SDIO_IDLE"
    THEN LET m1 == sdio_verify_rx_checksums(m, m.g.total_blocks)
         IN  [m |-> m1,
              status |-> IF m1.g.checksum_errors = 0
                         THEN "SDIO_OK" ELSE "SDIO_ERR_DATA_CRC"]
    ELSE IF Expired(m.g, now)
    THEN [m |-> m, status |-> "SDIO_ERR_DATA_TIMEOUT"]
    ELSE [m |-> sdio_verify_rx_checksums(m, m.g.total_blocks), status |-> "SDIO_BUSY"]

\* rp2040_sdio_rx_poll, lines 439-464, up to the call of rp2040_sdio_stop
rx_poll_decide(m, now) ==
    IF m.g.transfer_state = "SDIO_IDLE"
    THEN LET m1 == sdio_verify_rx_checksums(m, m.g.total_blocks)
         IN  [m |-> m1,
              status |-> IF m1.g.checksum_errors = 0
                         THEN "SDIO_OK" ELSE "SDIO_ERR_DATA_CRC"]
    ELSE IF Expired(m.g, now)
    THEN [m |-> m, status |-> "SDIO_ERR_DATA_TIMEOUT"]
    ELSE [m |-> sdio_verify_rx_checksums(m, 1), status |-> "SDIO_BUSY"]

(***************************************************************************)
(* Data transmission to SD card                                            *)
(***************************************************************************)
sdio_start_next_block_tx(m) ==
    LET m1 == check(m, m.g.blocks_done < m.g.total_blocks
                       /\ m.g.blocks_checksumed > m.g.blocks_done)
    IN  IF m1.h.halted THEN m1
        ELSE [m1 EXCEPT !.h.dma_busy = TRUE,
                        !.h.dma_block = m.g.blocks_done]

\* The loop of sdio_compute_tx_checksums, one piece at a time: its test,
\* blockidx = blocks_checksumed++, and the store of the computed checksum.
compute_tx_test(m, maxcount) ==
    m.g.blocks_checksumed < m.g.blocks_done /\ maxcount > 0

compute_tx_take(m) == [m EXCEPT !.g.blocks_checksumed = @ + 1]

compute_tx_store(m, blockidx) ==
    [m EXCEPT !.g.block_checksums =
                  IF blockidx \in Blocks
                  THEN [@ EXCEPT ![blockidx] = block_crc(m, blockidx)] ELSE @,
              !.t.computed = @ \cup {blockidx}]

RECURSIVE sdio_compute_tx_checksums(_, _)
sdio_compute_tx_checksums(m, maxcount) ==
    IF compute_tx_test(m, maxcount)
    THEN sdio_compute_tx_checksums(
             compute_tx_store(compute_tx_take(m), m.g.blocks_checksumed),
             maxcount - 1)
    ELSE m

rp2040_sdio_tx_irq(m) ==
    LET done == m.g.blocks_done
        \* crc = block_checksums[blocks_done], put in the TX FIFO with the
        \* end marker
        m1 == [m EXCEPT !.t.handler_runs = @ + 1,
                        !.t.oob = @ \/ done \notin Blocks,
                        !.t.sent_uncomputed = @ \/ done \notin m.t.computed,
                        !.g.blocks_done = done + 1]
    IN  IF m1.g.blocks_done < m1.g.total_blocks
        THEN sdio_start_next_block_tx(m1)
        ELSE [m1 EXCEPT !.g.transfer_state = "SDIO_IDLE",
                        !.t.last_fired = TRUE]

\* rp2040_sdio_tx_start, lines 524-557: up to the start of the data state
\* machine.  The rest of the function is the second checksum loop.
rp2040_sdio_tx_start(m, num_blocks, now, in_handler) ==
    LET m1 == check([m EXCEPT !.t = NewSession(@, "tx")],
                    num_blocks <= SDIO_MAX_BLOCKS)
        m2 == [m1 EXCEPT !.g.transfer_state = "SDIO_TX",
                         !.g.transfer_start_time = now,
                         !.g.blocks_done = 0,
                         !.g.total_blocks = num_blocks,
                         !.g.blocks_checksumed = 0,
                         !.g.checksum_errors = 0,
                         !.g.inside_irq_handler = in_handler]
        m3 == sdio_compute_tx_checksums(m2, 1)
        m4 == [m3 EXCEPT !.h.rx_crc = Zero64,
                         !.h.sm_enabled = FALSE,
                         !.h.pins_out = TRUE,
                         !.h.dma_dir = "tx"]
        m5 == sdio_start_next_block_tx(m4)
    IN  IF m1.h.halted THEN m1
        ELSE IF m5.h.halted THEN m5
        ELSE [m5 EXCEPT !.h.sm_enabled = TRUE]

\* rp2040_sdio_tx_poll, lines 568-572
tx_poll_dispatch(m) ==
    IF m.g.inside_irq_handler /\ INTS0(m.h)
    THEN rp2040_sdio_tx_irq(m)
    ELSE m

\* rp2040_sdio_tx_poll, lines 579-596, up to the call of rp2040_sdio_stop
tx_poll_decide(m, now) ==
    IF m.g.transfer_state = "SDIO_IDLE"
    THEN [m |-> [m EXCEPT !.h.sm_enabled = FALSE, !.h.pins_out = FALSE],
          status |-> "SDIO_OK"]
    ELSE IF Expired(m.g, now)
    THEN [m |-> m, status |-> "SDIO_ERR_DATA_TIMEOUT"]
    ELSE [m |-> m, status |-> "SDIO_BUSY"]

\* A stop that leaves the DMA channel running: a variant the timeout
\* property must tell apart from rp2040_sdio_stop.
rp2040_sdio_stop_no_abort(m) ==
    [m EXCEPT !.h.sm_enabled = FALSE,
              !.h.pins_out = FALSE,
              !.g.transfer_state = "SDIO_IDLE"]

\* Force everything to idle state
rp2040_sdio_stop(m) ==
    [m EXCEPT !.h.dma_busy = FALSE,
              !.h.sm_enabled = FALSE,
              !.h.pins_out = FALSE,
              !.g.transfer_state = "SDIO_IDLE"]

\* An interrupt handler that does not look at transfer_state: a variant the
\* handling of a late interrupt must tell apart from rp2040_sdio_dma_irq.
rp2040_sdio_dma_irq_no_state_test(m) ==
    LET m1 == [m EXCEPT !.h.dma_intr = FALSE]
    IN  IF m1.h.dma_dir = "tx" THEN rp2040_sdio_tx_irq(m1)
        ELSE rp2040_sdio_rx_irq(m1)

rp2040_sdio_dma_irq(m) ==
    LET m1 == [m EXCEPT !.h.dma_intr = FALSE]
    IN  IF m1.g.transfer_state = "SDIO_TX" THEN rp2040_sdio_tx_irq(m1)
        ELSE IF m1.g.transfer_state = "SDIO_RX" THEN rp2040_sdio_rx_irq(m1)
        ELSE m1


(***************************************************************************)
(* The state after rp2040_sdio_init: g_sdio zeroed, the channel's          *)
(* completion interrupt enabled on DMA_IRQ_1 only (INTE0 keeps its reset   *)
(* value), nothing armed.  The build has assertions or NDEBUG.  The clock  *)
(* starts 536 ms before it wraps, so that a session armed first sees the   *)
(* wrap after two advances and a later one runs past it.                   *)
(***************************************************************************)
InitTimes == {<<Two16 - 1, Two16 - 536>>}

TickSteps == {500, 501}

NoCall == [fired |-> FALSE, events |-> 0, runs |-> 0, intr |-> FALSE,
           open |-> FALSE, idle |-> TRUE, checksumed |-> 0]

EngineInit ==
    /\ g_sdio = [transfer_state |-> "SDIO_IDLE",
                 inside_irq_handler |-> FALSE,
                 transfer_start_time |-> <<0, 0>>,
                 blocks_done |-> 0,
                 total_blocks |-> 0,
                 blocks_checksumed |-> 0,
                 checksum_errors |-> 0,
                 block_checksums |-> [i \in Blocks |-> Zero64]]
    /\ \E nd \in BOOLEAN :
         hw = [dma_busy |-> FALSE, dma_block |-> 0, dma_dir |-> "none",
               dma_intr |-> FALSE, dma_inte0 |-> FALSE, dma_inte1 |-> TRUE,
               sm_enabled |-> FALSE, pins_out |-> FALSE, rx_crc |-> Zero64,
               ndebug |-> nd, halted |-> FALSE]
    /\ buffer = [i \in Blocks |-> 1]
    /\ trace = [sessions |-> 0, ticks |-> 0, dir |-> "none", open |-> FALSE,
                dma_events |-> 0, handler_runs |-> 0, last_fired |-> FALSE,
                computed |-> {}, timeline |-> <<>>,
                sent_uncomputed |-> FALSE, assert_violated |-> FALSE,
                oob |-> FALSE, last |-> "init", call |-> NoCall,
                seen_expired |-> FALSE]
    /\ pc = "idle"
    /\ local = [maxcount |-> 0, blockidx |-> 0]
    /\ ret = "NONE"
    /\ bytes_complete = 0
    /\ vectactive = FALSE

\* The command channel at rest: FIFOs empty, state machine at its entry point.
CmdIdle ==
    [pc |-> "idle", fn |-> "none", command |-> 0, arg |-> <<0, 0, 0, 0>>,
     want |-> FALSE, start |-> <<0, 0>>, tx_fifo |-> <<>>, rx_fifo |-> <<>>,
     sm |-> "entry", response_buf |-> <<>>, status |-> "NONE",
     response |-> <<>>, response16 |-> <<>>,
     frame |-> <<>>, wire |-> <<>>, arrived |-> 0,
     saw_expired |-> FALSE]

\* No checksum call in progress.
CalcIdle == [pc |-> "idle", data |-> <<>>, result |-> Zero64]

\* No card operation in progress.
CardIdle ==
    [pc |-> "idle", op |-> "none", n |-> 0, step |-> 0, ops |-> 0,
     g_sdio_error |-> "SDIO_OK", result |-> "none", loop_status |-> "none",
     start_state |-> "none", issue_state |-> "none", issue_index |-> 0,
     issue_after_start |-> FALSE, issue_left_armed |-> FALSE,
     left_armed |-> FALSE, sending |-> FALSE]

\* The completion handler of a transmission is not running.
FifoIdle ==
    [pc |-> "idle", level |-> 0, maxwait |-> 0, exit |-> "none", room |-> 0,
     puts |-> 0, dropped |-> 0]

\* No session is timed.
TimerIdle == [pc |-> "idle", d |-> "none", elapsed |-> <<0, 0>>, status |-> "NONE"]

Init ==
    /\ EngineInit
    /\ millis \in InitTimes
    /\ cmd = CmdIdle
    /\ calc = CalcIdle
    /\ card = CardIdle
    /\ fifo = FifoIdle
    /\ timer = TimerIdle

(***************************************************************************)
(* Scheduling.  DMA_IRQ_1 has the lowest priority (irq_set_priority 255):  *)
(* it preempts thread code at once and is not delivered while the CPU is   *)
(* inside any handler.                                                     *)
(***************************************************************************)
IrqDeliverable == INTS1(hw) /\ ~vectactive /\ ~hw.halted

ThreadMayRun == ~hw.halted /\ ~IrqDeliverable

\* History: the last step taken.  Only the return of a poll is told apart;
\* what the caller saw on entering a poll is kept until the step after the
\* return.
InPoll == pc \notin {"idle", "tx_start_compute", "tx_start_store"}

Mark(m, op) ==
    LET keep == InPoll \/ op \in {"poll", "rx_poll_ret", "tx_poll_ret"}
    IN  [m EXCEPT !.t.last = IF op \in {"rx_poll_ret", "tx_poll_ret"} THEN op ELSE "-",
                  !.t.call = IF keep THEN @ ELSE NoCall,
                  !.t.seen_expired = IF keep THEN @ ELSE FALSE]

\* The caller's view when it enters a poll, kept for the properties.
Snapshot(m) ==
    [m EXCEPT !.t.call = [fired |-> m.t.last_fired,
                          events |-> m.t.dma_events,
                          runs |-> m.t.handler_runs,
                          intr |-> m.h.dma_intr,
                          open |-> m.t.open,
                          idle |-> m.g.transfer_state = "SDIO_IDLE",
                          checksumed |-> m.g.blocks_checksumed]]

\* A status other than SDIO_BUSY ends the caller's session.
Returned(m, op, status) ==
    Mark([m EXCEPT !.t.open = @ /\ status = "SDIO_BUSY"], op)

(***************************************************************************)
(* The calling thread.  A transfer is armed only while the engine is idle  *)
(* and polled with the poll function of its direction; the CPU context     *)
(* (thread or handler) does not change during a session.  The caller's     *)
(* bytes_done is a fresh local of each call, and a buffer handed in for    *)
(* reception is read only where the DMA has written it.                    *)
(***************************************************************************)
RxStart(n) ==
    /\ pc = "idle" /\ ThreadMayRun
    /\ g_sdio.transfer_state = "SDIO_IDLE"
    /\ trace.sessions < MaxSessions
    /\ Commit(Mark(rp2040_sdio_rx_start([Machine EXCEPT !.b = [i \in Blocks |-> 1]],
                                         n, millis, vectactive), "rx_start"))
    /\ ret' = "SDIO_OK"
    /\ bytes_complete' = 0
    /\ UNCHANGED <<pc, local, vectactive, millis>>
    /\ UNCHANGED upper_vars

TxStart(n) ==
    /\ pc = "idle" /\ ThreadMayRun
    /\ g_sdio.transfer_state = "SDIO_IDLE"
    /\ trace.sessions < MaxSessions
    /\ LET m == rp2040_sdio_tx_start([Machine EXCEPT !.b = [i \in Blocks |-> BlockContent(i)]],
                                     n, millis, vectactive)
       IN  /\ Commit(Mark(m, "tx_start_dma"))
           /\ pc' = IF m.h.halted THEN "idle" ELSE "tx_start_compute"
           /\ local' = [maxcount |-> m.g.total_blocks, blockidx |-> 0]
    /\ ret' = "NONE"
    /\ bytes_complete' = 0
    /\ UNCHANGED <<vectactive, millis>>
    /\ UNCHANGED upper_vars

\* rp2040_sdio_tx_start, line 560: sdio_compute_tx_checksums(total_blocks),
\* the loop test and blockidx = blocks_checksumed++
TxStartCompute ==
    /\ pc = "tx_start_compute" /\ ThreadMayRun
    /\ IF compute_tx_test(Machine, local.maxcount)
       THEN /\ Commit(Mark(compute_tx_take(Machine), "tx_compute"))
            /\ local' = [maxcount |-> local.maxcount - 1,
                         blockidx |-> g_sdio.blocks_checksumed]
            /\ pc' = "tx_start_store"
            /\ ret' = ret
       ELSE /\ Commit(Mark(Machine, "tx_start"))
            /\ pc' = "idle"
            /\ ret' = "SDIO_OK"
            /\ local' = [maxcount |-> 0, blockidx |-> 0]
    /\ UNCHANGED <<bytes_complete, vectactive, millis>>
    /\ UNCHANGED upper_vars

\* the checksum of block blockidx is computed and stored
TxStartStore ==
    /\ pc = "tx_start_store" /\ ThreadMayRun
    /\ Commit(Mark(compute_tx_store(Machine, local.blockidx), "tx_store"))
    /\ pc' = "tx_start_compute"
    /\ UNCHANGED <<local, ret, bytes_complete, vectactive, millis>>
    /\ UNCHANGED upper_vars

Dispatch(d, m) == IF d = "rx" THEN rx_poll_dispatch(m) ELSE tx_poll_dispatch(m)

Decide(d, m, now) == IF d = "rx" THEN rx_poll_decide(m, now) ELSE tx_poll_decide(m, now)

\* rp2040_sdio_rx_poll / rp2040_sdio_tx_poll is entered; manual dispatch
PollCall(d) ==
    /\ pc = "idle" /\ ThreadMayRun
    /\ trace.dir = d
    /\ Commit(Mark(Dispatch(d, Snapshot(Machine)), "poll"))
    /\ pc' = d \o "_poll_bytes"
    /\ UNCHANGED <<local, ret, bytes_complete, vectactive, millis>>
    /\ UNCHANGED upper_vars

\* *bytes_complete = g_sdio.blocks_done * 512
PollBytes(d) ==
    /\ pc = d \o "_poll_bytes" /\ ThreadMayRun
    /\ bytes_complete' = poll_bytes(Machine)
    /\ Commit(Mark(Machine, "poll"))
    /\ pc' = d \o "_poll_state"
    /\ UNCHANGED <<local, ret, vectactive, millis>>
    /\ UNCHANGED upper_vars

\* the test of transfer_state and of the timeout, and the return
PollState(d) ==
    /\ pc = d \o "_poll_state" /\ ThreadMayRun
    /\ LET r == Decide(d, Machine, millis)
           seen == g_sdio.transfer_state # "SDIO_IDLE" /\ Expired(g_sdio, millis)
           m == [r.m EXCEPT !.t.seen_expired = seen]
       IN  IF r.status = "SDIO_ERR_DATA_TIMEOUT"
           THEN /\ Commit(Mark(m, "poll"))
                /\ pc' = d \o "_poll_stop"
                /\ ret' = ret
           ELSE /\ Commit(Returned(m, d \o "_poll_ret", r.status))
                /\ pc' = "idle"
                /\ ret' = r.status
    /\ UNCHANGED <<local, bytes_complete, vectactive, millis>>
    /\ UNCHANGED upper_vars

\* rp2040_sdio_stop(); return SDIO_ERR_DATA_TIMEOUT;
PollStop(d) ==
    /\ pc = d \o "_poll_stop" /\ ThreadMayRun
    /\ Commit(Returned(rp2040_sdio_stop(Machine), d \o "_poll_ret",
                       "SDIO_ERR_DATA_TIMEOUT"))
    /\ pc' = "idle"
    /\ ret' = "SDIO_ERR_DATA_TIMEOUT"
    /\ UNCHANGED <<local, bytes_complete, vectactive, millis>>
    /\ UNCHANGED upper_vars

\* the caller forces the engine idle
Stop ==
    /\ pc = "idle" /\ ThreadMayRun
    /\ trace.dir # "none"
    /\ Commit(Returned(rp2040_sdio_stop(Machine), "stop", "SDIO_OK"))
    /\ ret' = "SDIO_OK"
    /\ UNCHANGED <<pc, local, bytes_complete, vectactive, millis>>
    /\ UNCHANGED upper_vars

\* The CPU takes a fault or an interrupt of higher priority and the handler
\* uses the driver, or that handler returns.
EnterHandler ==
    /\ pc = "idle" /\ ~hw.halted /\ ~vectactive
    /\ g_sdio.transfer_state = "SDIO_IDLE"
    /\ vectactive' = TRUE
    /\ Commit(Mark(Machine, "enter"))
    /\ UNCHANGED <<pc, local, ret, bytes_complete, millis>>
    /\ UNCHANGED upper_vars

ExitHandler ==
    /\ pc = "idle" /\ ~hw.halted /\ vectactive
    /\ g_sdio.transfer_state = "SDIO_IDLE"
    /\ vectactive' = FALSE
    /\ Commit(Mark(Machine, "exit"))
    /\ UNCHANGED <<pc, local, ret, bytes_complete, millis>>
    /\ UNCHANGED upper_vars

(***************************************************************************)
(* The hardware.                                                           *)
(***************************************************************************)
\* The DMA channel finishes the armed block and raises its completion flag.
\* In reception the card sent the block with its checksum, and the buffer
\* received it intact or damaged.
DmaComplete(intact) ==
    /\ hw.dma_busy /\ hw.sm_enabled /\ ~hw.halted
    /\ hw.dma_dir = "tx" => intact
    /\ LET rx == hw.dma_dir = "rx"
           sent == BlockContent(hw.dma_block)
           recv == IF intact THEN sent ELSE Corrupted(sent)
           crc == IF rx THEN CrcOf[sent] ELSE Zero64
       IN  Commit(Mark([Machine EXCEPT
                           !.h.dma_busy = FALSE,
                           !.h.dma_intr = TRUE,
                           !.h.rx_crc = IF rx THEN crc ELSE @,
                           !.b = IF rx /\ hw.dma_block \in Blocks
                                 THEN [@ EXCEPT ![hw.dma_block] = recv] ELSE @,
                           !.t.dma_events = @ + 1,
                           !.t.timeline = Append(@, crc)], "dma"))
    /\ UNCHANGED <<pc, local, ret, bytes_complete, vectactive, millis>>
    /\ UNCHANGED upper_vars

\* DMA_IRQ_1 is delivered
DmaIrq ==
    /\ IrqDeliverable
    /\ Commit(Mark(rp2040_sdio_dma_irq(Machine), "irq"))
    /\ UNCHANGED <<pc, local, ret, bytes_complete, vectactive, millis>>
    /\ UNCHANGED upper_vars

\* millis() advances.  Only a session in flight reads the clock after
\* arming, and a poll reads it once (lines 448, 585): an advance during a
\* call is the same advance before the call.
Tick(d) ==
    /\ trace.ticks < MaxTicks
    /\ pc = "idle"
    /\ ~hw.halted
    /\ g_sdio.transfer_state # "SDIO_IDLE"
    /\ millis' = Add32(millis, d)
    /\ Commit(Mark([Machine EXCEPT !.t.ticks = @ + 1], "tick"))
    /\ UNCHANGED <<pc, local, ret, bytes_complete, vectactive>>
    /\ UNCHANGED upper_vars

Dirs == {"rx", "tx"}

Next ==
    \/ \E n \in 0..SDIO_MAX_BLOCKS : RxStart(n)
    \/ \E n \in 0..SDIO_MAX_BLOCKS : TxStart(n)
    \/ TxStartCompute
    \/ TxStartStore
    \/ \E d \in Dirs : PollCall(d)
    \/ \E d \in Dirs : PollBytes(d)
    \/ \E d \in Dirs : PollState(d)
    \/ \E d \in Dirs : PollStop(d)
    \/ Stop
    \/ EnterHandler
    \/ ExitHandler
    \/ \E intact \in BOOLEAN : DmaComplete(intact)
    \/ DmaIrq
    \/ \E d \in TickSteps : Tick(d)

Spec == Init /\ [][Next]_vars

(***************************************************************************)
(* The command channel: one call of rp2040_sdio_command_R1, _R2 or _R3     *)
(* with the card answering, answering in part, or not at all.              *)
(***************************************************************************)
CmdX == [c |-> cmd, h |-> hw]

CmdCommit(x) ==
    /\ cmd' = x.c
    /\ hw' = x.h

\* Arguments of the calls: 0, 0x1AA (CMD8) and 0xD0040000 (ACMD41).
CmdArgs == {<<0, 0, 0, 0>>, <<0, 0, 1, 170>>, <<208, 4, 0, 0>>}

\* The clock starts 2 ms before it wraps.
CmdInitTimes == {<<Two16 - 1, Two16 - 2>>}

CmdTickSteps == {1, 2}

CmdInit ==
    /\ EngineInit
    /\ hw.ndebug
    /\ millis \in CmdInitTimes
    /\ \E command \in 0..MaxIndex, arg \in CmdArgs :
         cmd = [CmdIdle EXCEPT !.command = command, !.arg = arg]
    /\ calc = CalcIdle
    /\ card = CardIdle
    /\ fifo = FifoIdle
    /\ timer = TimerIdle

\* The SD command CRC7 as the card computes it: bit-serial, polynomial
\* x^7 + x^3 + 1, initial value 0, most significant bit first.
StdCrc7BitFn ==
    [crc \in 0..127 |-> [b \in 0..1 |->
        LET sh == (crc * 2) % 128
        IN  IF (crc \div 64 + b) % 2 = 1 THEN Xor8(sh, 9) ELSE sh]]

StdCrc7Bit(crc, b) == StdCrc7BitFn[crc][b]

RECURSIVE StdCrc7Byte(_, _, _)
StdCrc7Byte(crc, byte, i) ==
    IF i < 0 THEN crc
    ELSE [next \in 0..127 |-> StdCrc7Byte(next, byte, i - 1)][StdCrc7Bit(crc, Bit(byte, i))]

RECURSIVE StdCrc7(_, _, _)
StdCrc7(crc, bytes, k) ==
    IF k > Len(bytes) THEN crc
    ELSE [next \in 0..127 |-> StdCrc7(next, bytes, k + 1)][StdCrc7Byte(crc, bytes[k], 7)]

\* The 48-bit reply of the card to a command: index, 32-bit payload, CRC7
\* and end bit, as the two words the state machine pushes.
ReplyPayloads == {<<0, 0, 1, 170>>, <<128, 255, 0, 0>>}

CardReply(echo, payload) ==
    LET crc == StdCrc7(0, <<echo>> \o payload, 1)
    IN  << <<echo, payload[1], payload[2], payload[3]>>,
           <<0, 0, payload[4], crc * 2 + 1>> >>

\* The six bytes of a two-word reply, and the reply with byte j replaced.
ReplyBytes(r) == <<r[1][1], r[1][2], r[1][3], r[1][4], r[2][3], r[2][4]>>

ReplaceByte(r, j, v) ==
    IF j <= 4 THEN <<[r[1] EXCEPT ![j] = v], r[2]>>
    ELSE <<r[1], [r[2] EXCEPT ![j - 2] = v]>>

\* Damage on the line: <<j, mask>> flips the bits of mask in byte j.
LineFaults == {<<0, 0>>, <<1, 1>>, <<3, 137>>, <<6, 1>>, <<6, 16>>}

Damaged(r, f) ==
    IF f[1] = 0 THEN r ELSE ReplaceByte(r, f[1], Xor8(ReplyBytes(r)[f[1]], f[2]))

\* The 136-bit reply (five words): first byte, 15 bytes of register, CRC7.
LongReply(first, crc_ok) ==
    LET reg == [i \in 1..15 |-> 16 * i + 1]
        crc == StdCrc7(0, reg, 1)
        last == IF crc_ok THEN crc * 2 + 1 ELSE Xor8(crc * 2 + 1, 16)
    IN  << <<first, reg[1], reg[2], reg[3]>>,
           <<reg[4], reg[5], reg[6], reg[7]>>,
           <<reg[8], reg[9], reg[10], reg[11]>>,
           <<reg[12], reg[13], reg[14], reg[15]>>,
           <<0, 0, 0, last>> >>

\* The card can answer once the command has been clocked out, and once.
CanReply(c) == c.pc = "wait" /\ c.sm = "run" /\ c.tx_fifo = <<>> /\ c.arrived = 0

\* What the card can put on the line in answer to the call in progress.
Replies(c) ==
    IF ~CanReply(c) THEN {} ELSE
    IF c.fn = "R2"
    THEN {LongReply(first, ok) : first \in {63, 2}, ok \in BOOLEAN}
    ELSE IF c.fn = "R1" /\ ~c.want
    THEN {<< <<0, 0, 0, 0>> >>}
    ELSE {Damaged(CardReply(echo, payload), f) :
              echo \in {c.command, (c.command + 1) % (MaxIndex + 1)},
              payload \in ReplyPayloads, f \in LineFaults}

CmdFns == {"R1", "R2", "R3"}

CmdWaiting(x) ==
    IF x.c.fn = "R1" THEN R1_waiting(x)
    ELSE IF x.c.fn = "R2" THEN R2_waiting(x)
    ELSE R3_waiting(x)

\* The command function is entered and the command queued.
CmdCall(fn, want) ==
    /\ cmd.pc = "idle"
    /\ fn # "R1" => want
    /\ LET x == [CmdX EXCEPT !.c.fn = fn, !.c.want = want, !.c.pc = "wait"]
       IN  CmdCommit(IF fn = "R1" THEN R1_start(x, millis)
                     ELSE IF fn = "R2" THEN R2_start(x, millis)
                     ELSE R3_start(x, millis))
    /\ UNCHANGED millis
    /\ UNCHANGED <<engine_vars, calc, card, fifo, timer>>

\* The state machine takes the queued words and clocks the command out.
CmdTransmit ==
    /\ cmd.sm = "run" /\ cmd.tx_fifo # <<>>
    /\ cmd' = [cmd EXCEPT !.frame = cmd.tx_fifo, !.tx_fifo = <<>>]
    /\ UNCHANGED <<hw, millis>>
    /\ UNCHANGED <<engine_vars, calc, card, fifo, timer>>

\* The first k words of reply r arrive: in the RX FIFO, or for R2 through
\* the DMA in response_buf.  A reply that arrives in part is never completed.
CmdReply(r, k) ==
    /\ CanReply(cmd)
    /\ LET got == SubSeq(r, 1, k)
           c1 == [cmd EXCEPT !.wire = r, !.arrived = k,
                             !.sm = IF k = Len(r) THEN "entry" ELSE "run"]
       IN  IF cmd.fn = "R2"
           THEN /\ cmd' = [c1 EXCEPT !.response_buf = got]
                /\ hw' = IF k = 5
                         THEN [hw EXCEPT !.dma_busy = FALSE, !.dma_intr = TRUE]
                         ELSE hw
           ELSE /\ cmd' = [c1 EXCEPT !.rx_fifo = got]
                /\ hw' = hw
    /\ UNCHANGED millis
    /\ UNCHANGED <<engine_vars, calc, card, fifo, timer>>

\* One turn of the wait loop that leaves it: the reply is there, or the
\* window has passed.
CmdWait ==
    /\ cmd.pc = "wait"
    /\ LET x == CmdX
           waiting == CmdWaiting(x)
           expired == CommandExpired(cmd, millis)
           x1 == IF ~waiting
                 THEN (IF cmd.fn = "R1" THEN R1_read(x)
                       ELSE IF cmd.fn = "R2" THEN R2_read(x)
                       ELSE R3_read(x))
                 ELSE (IF cmd.fn = "R1" THEN R1_timeout(x)
                       ELSE IF cmd.fn = "R2" THEN R2_timeout(x)
                       ELSE R3_timeout(x))
       IN  /\ ~waiting \/ expired
           /\ CmdCommit([x1 EXCEPT !.c.pc = "done",
                                   !.c.saw_expired = waiting /\ expired])
    /\ UNCHANGED millis
    /\ UNCHANGED <<engine_vars, calc, card, fifo, timer>>

\* millis() advances while the command waits (the clock is followed until
\* the window has passed)
CmdTick(d) ==
    /\ cmd.pc = "wait"
    /\ ~CommandExpired(cmd, millis)
    /\ millis' = Add32(millis, d)
    /\ UNCHANGED <<hw, cmd>>
    /\ UNCHANGED <<engine_vars, calc, card, fifo, timer>>

CmdNext ==
    \/ \E fn \in CmdFns, want \in BOOLEAN : CmdCall(fn, want)
    \/ CmdTransmit
    \/ \E r \in Replies(cmd), k \in 1..5 : k \in {1, Len(r)} /\ CmdReply(r, k)
    \/ CmdWait
    \/ \E d \in CmdTickSteps : CmdTick(d)
    \/ DmaIrq

CmdSpec == CmdInit /\ [][CmdNext]_vars

\* The CPU keeps running the wait loop and the clock keeps advancing.
CmdLiveSpec ==
    /\ CmdInit
    /\ [][CmdNext]_vars
    /\ WF_vars(CmdWait)
    /\ WF_vars(\E d \in CmdTickSteps : CmdTick(d))

(***************************************************************************)
(* The data checksum: one call of sdio_crc16_4bit_checksum on a buffer of  *)
(* up to MaxWords words.                                                   *)
(***************************************************************************)
\* Words with a single bit set, the zero word, the all-ones word and a word
\* with eight different nibbles.
WordSamples ==
    {[i \in 1..8 |-> IF i = p THEN v ELSE 0] : p \in 1..8, v \in {1, 2, 4, 8}}
        \cup {[i \in 1..8 |-> 0], [i \in 1..8 |-> 15], <<1, 2, 3, 4, 5, 6, 7, 8>>}

\* What the other words of a buffer hold.
FillWords == {[i \in 1..8 |-> 0], <<1, 2, 3, 4, 5, 6, 7, 8>>}

\* The empty buffer, and buffers of 1..MaxWords words: any sample in one
\* place, the same fill word in the others.
CrcInputs ==
    {<<>>} \cup
    {[i \in 1..np[1] |-> IF i = np[2] THEN w ELSE f] :
         np \in {x \in (1..MaxWords) \X (1..MaxWords) : x[2] <= x[1]},
         w \in WordSamples, f \in FillWords}

CrcInit ==
    /\ EngineInit
    /\ hw.ndebug
    /\ millis \in InitTimes
    /\ cmd = CmdIdle
    /\ card = CardIdle
    /\ fifo = FifoIdle
    /\ timer = TimerIdle
    /\ \E data \in CrcInputs : calc = [CalcIdle EXCEPT !.data = data]

\* the call and its return
CrcCall ==
    /\ calc.pc = "idle"
    /\ calc' = [calc EXCEPT !.pc = "done",
                            !.result = sdio_crc16_4bit_checksum(calc.data, Len(calc.data))]
    /\ UNCHANGED <<engine_vars, hw, millis, cmd, card, fifo, timer>>

CrcNext == CrcCall

CrcSpec == CrcInit /\ [][CrcNext]_vars

\* The checksum of the SD specification for the 4-bit bus: each data line
\* carries its own CRC-16/CCITT (x^16 + x^12 + x^5 + 1, initial value 0),
\* computed here one bit at a time.
Toggle(x, i) == IF Bit(x, i) = 1 THEN x - 2 ^ i ELSE x + 2 ^ i

StdCrc16BitFn ==
    [crc \in 0..65535 |-> [b \in 0..1 |->
        LET sh == (crc * 2) % 65536
        IN  IF (crc \div 32768 + b) % 2 = 1
            THEN Toggle(Toggle(sh, 12), 5) + 1
            ELSE sh]]

\* The bits of data line l (0..3) in the order they are on the bus: the
\* bytes of each word in memory order, the high nibble of a byte first.
LineBits(data, l) ==
    [n \in 1..(8 * Len(data)) |->
        Bit(bswap32(data[((n - 1) \div 8) + 1])[((n - 1) % 8) + 1], l)]

RECURSIVE StdCrc16(_, _, _)
StdCrc16(crc, bits, k) ==
    IF k > Len(bits) THEN crc
    ELSE [next \in 0..65535 |-> StdCrc16(next, bits, k + 1)][StdCrc16BitFn[crc][bits[k]]]

\* The four line checksums, interleaved: nibble j of the result holds bit
\* 16 - j of each line, line 3 in the nibble's high bit.
StdCrc16x4(data) ==
    LET c == <<StdCrc16(0, LineBits(data, 0), 1), StdCrc16(0, LineBits(data, 1), 1),
               StdCrc16(0, LineBits(data, 2), 1), StdCrc16(0, LineBits(data, 3), 1)>>
    IN  [j \in 1..16 |-> Bit(c[1], 16 - j) + 2 * Bit(c[2], 16 - j)
                             + 4 * Bit(c[3], 16 - j) + 8 * Bit(c[4], 16 - j)]

(***************************************************************************)
(* The card driver: SdioCard::readSector, readSectors, writeSector and     *)
(* writeSectors, one after the other.  A command call is its issue and its *)
(* return with any status the command functions return; a poll is one call *)
(* of rp2040_sdio_rx_poll or rp2040_sdio_tx_poll.  The driver runs in      *)
(* thread context.  card.g_sdio_error is the driver's g_sdio_error.  The   *)
(* rest of card is history for the properties: start_state is              *)
(* transfer_state as the last rx_start or tx_start found it, issue_* is    *)
(* what held when the last command was issued, left_armed tells that an    *)
(* operation returned on a failed read command with its session armed,     *)
(* loop_status is the status that ended the poll loop of the operation.    *)
(***************************************************************************)
CardOps == {"readSector", "readSectors", "writeSector", "writeSectors"}

\* A readSectors that stops the transmission before it polls: a variant
\* the ordering of commands and sessions must tell apart from CardProgram.
CardProgram_stop_before_poll(op) ==
    IF op \in {"readSector", "readSectors"}
    THEN <<[kind |-> "cmd", index |-> 16], [kind |-> "rx_start", index |-> 0],
           [kind |-> "cmd", index |-> 18], [kind |-> "stop", index |-> 12],
           [kind |-> "poll", index |-> 0], [kind |-> "ret", index |-> 0]>>
    ELSE <<[kind |-> "cmd", index |-> 16], [kind |-> "cmd", index |-> 24],
           [kind |-> "tx_start", index |-> 0], [kind |-> "poll", index |-> 0],
           [kind |-> "ret", index |-> 0]>>

\* The calls an operation makes, in program order.  A "cmd" that fails ends
\* the operation (checkReturnOk in the || chain); the "stop" command after
\* the poll loop does not.
CardProgram(op) ==
    IF op = "readSector"
    THEN <<[kind |-> "cmd", index |-> 16], [kind |-> "rx_start", index |-> 0],
           [kind |-> "cmd", index |-> 17], [kind |-> "poll", index |-> 0],
           [kind |-> "ret", index |-> 0]>>
    ELSE IF op = "readSectors"
    THEN <<[kind |-> "cmd", index |-> 16], [kind |-> "rx_start", index |-> 0],
           [kind |-> "cmd", index |-> 18], [kind |-> "poll", index |-> 0],
           [kind |-> "stop", index |-> 12], [kind |-> "ret", index |-> 0]>>
    ELSE IF op = "writeSector"
    THEN <<[kind |-> "cmd", index |-> 16], [kind |-> "cmd", index |-> 24],
           [kind |-> "tx_start", index |-> 0], [kind |-> "poll", index |-> 0],
           [kind |-> "ret", index |-> 0]>>
    ELSE <<[kind |-> "cmd", index |-> 16], [kind |-> "cmd", index |-> 55],
           [kind |-> "cmd", index |-> 23], [kind |-> "cmd", index |-> 25],
           [kind |-> "tx_start", index |-> 0], [kind |-> "poll", index |-> 0],
           [kind |-> "stop", index |-> 12], [kind |-> "ret", index |-> 0]>>

CardStep == CardProgram(card.op)[card.step]

\* The statuses a command call hands to the driver.
CmdOutcomes == {"SDIO_OK", "SDIO_ERR_RESPONSE_TIMEOUT", "SDIO_ERR_RESPONSE_CRC"}

DriverInit ==
    /\ EngineInit
    /\ millis \in InitTimes
    /\ cmd = CmdIdle
    /\ calc = CalcIdle
    /\ card = CardIdle
    /\ fifo = FifoIdle
    /\ timer = TimerIdle

DrvEngineIdle ==
    UNCHANGED <<pc, local, ret, bytes_complete, vectactive, millis, cmd, calc, fifo,
                timer>>

\* an operation of SdioCard is called
DrvCall(op, n) ==
    /\ card.pc = "idle" /\ ThreadMayRun
    /\ card.ops < MaxOps
    /\ op \in {"readSector", "writeSector"} => n = 1
    /\ card' = [card EXCEPT !.pc = "run", !.op = op, !.n = n, !.step = 1,
                            !.ops = @ + 1, !.result = "none",
                            !.loop_status = "none"]
    /\ UNCHANGED <<g_sdio, hw, buffer, trace>>
    /\ DrvEngineIdle

\* rp2040_sdio_command_R1 is entered and the command goes out
DrvCmdIssue ==
    /\ card.pc = "run" /\ ThreadMayRun
    /\ CardStep.kind \in {"cmd", "stop"}
    /\ card' = [card EXCEPT !.pc = "cmd_wait",
                            !.issue_state = g_sdio.transfer_state,
                            !.issue_index = CardStep.index,
                            !.issue_after_start =
                                card.step > 1
                                /\ CardProgram(card.op)[card.step - 1].kind = "rx_start",
                            !.issue_left_armed = card.left_armed,
                            !.sending = @ \/ CardStep.index \in {17, 18}]
    /\ UNCHANGED <<g_sdio, hw, buffer, trace>>
    /\ DrvEngineIdle

\* rp2040_sdio_command_R1 returns: g_sdio_error = status, and a failure of
\* a command before the transfer returns false from the operation
DrvCmdReturn(status) ==
    /\ card.pc = "cmd_wait" /\ ThreadMayRun
    /\ IF status = "SDIO_OK" \/ CardStep.kind = "stop"
       THEN card' = [card EXCEPT !.pc = "run", !.step = @ + 1,
                                 !.g_sdio_error = status]
       ELSE card' = [card EXCEPT !.pc = "idle", !.result = "false",
                                 !.g_sdio_error = status,
                                 !.left_armed =
                                     @ \/ (CardStep.index \in {17, 18}
                                           /\ g_sdio.transfer_state # "SDIO_IDLE")]
    /\ UNCHANGED <<g_sdio, hw, buffer, trace>>
    /\ DrvEngineIdle

\* rp2040_sdio_rx_start(dst, n) or rp2040_sdio_tx_start(src, n), whole
DrvStart ==
    /\ card.pc = "run" /\ ThreadMayRun
    /\ CardStep.kind \in {"rx_start", "tx_start"}
    /\ LET m == IF CardStep.kind = "rx_start"
                THEN rp2040_sdio_rx_start([Machine EXCEPT !.b = [i \in Blocks |-> 1]],
                                          card.n, millis, vectactive)
                ELSE LET m1 == rp2040_sdio_tx_start(
                                   [Machine EXCEPT !.b = [i \in Blocks |-> BlockContent(i)]],
                                   card.n, millis, vectactive)
                     IN  IF m1.h.halted THEN m1
                         ELSE sdio_compute_tx_checksums(m1, m1.g.total_blocks)
       IN  Commit(Mark(m, "drv_start"))
    /\ card' = [card EXCEPT !.step = @ + 1, !.g_sdio_error = "SDIO_OK",
                            !.start_state = g_sdio.transfer_state,
                            !.left_armed = FALSE,
                            !.sending = FALSE]
    /\ DrvEngineIdle

\* one call of the poll function, with the stop on its timeout branch
DrvPollResult(d, m, now) ==
    LET r == Decide(d, Dispatch(d, m), now)
    IN  IF r.status = "SDIO_ERR_DATA_TIMEOUT"
        THEN [m |-> rp2040_sdio_stop(r.m), status |-> r.status]
        ELSE r

\* g_sdio_error = rp2040_sdio_rx_poll(&bytes_done), and the loop test
DrvPoll ==
    /\ card.pc = "run" /\ ThreadMayRun
    /\ CardStep.kind = "poll"
    /\ LET d == IF card.op \in {"readSector", "readSectors"} THEN "rx" ELSE "tx"
           r == DrvPollResult(d, Machine, millis)
       IN  /\ Commit(Mark(r.m, "drv_poll"))
           /\ card' = [card EXCEPT !.g_sdio_error = r.status,
                                   !.loop_status =
                                       IF r.status = "SDIO_BUSY" THEN @ ELSE r.status,
                                   !.step = IF r.status = "SDIO_BUSY" THEN @ ELSE @ + 1]
    /\ DrvEngineIdle

\* return g_sdio_error == SDIO_OK
DrvReturn ==
    /\ card.pc = "run" /\ ThreadMayRun
    /\ CardStep.kind = "ret"
    /\ card' = [card EXCEPT !.pc = "idle",
                            !.result = IF card.g_sdio_error = "SDIO_OK"
                                       THEN "true" ELSE "false"]
    /\ UNCHANGED <<g_sdio, hw, buffer, trace>>
    /\ DrvEngineIdle

\* The card sends a block after it was given a read command, and takes a
\* block whenever the host sends one.
DrvData(intact) ==
    /\ hw.dma_dir = "rx" => card.sending
    /\ DmaComplete(intact)

\* millis() advances while the driver is in its poll loop
DrvTick(d) ==
    /\ card.pc = "run" /\ CardStep.kind = "poll"
    /\ Tick(d)

DriverNext ==
    \/ \E op \in CardOps, n \in 1..SDIO_MAX_BLOCKS : DrvCall(op, n)
    \/ DrvCmdIssue
    \/ \E status \in CmdOutcomes : DrvCmdReturn(status)
    \/ DrvStart
    \/ DrvPoll
    \/ DrvReturn
    \/ \E intact \in BOOLEAN : DrvData(intact)
    \/ DmaIrq
    \/ \E d \in TickSteps : DrvTick(d)

DriverSpec == DriverInit /\ [][DriverNext]_vars

(***************************************************************************)
(* The transmit completion handler and the TX FIFO of the data state       *)
(* machine: rp2040_sdio_tx_irq, lines 489-506, statement by statement.     *)
(* When the DMA channel completes, the FIFO holds any number of the last   *)
(* data words; the state machine takes words out of it while the handler   *)
(* runs.  pio_sm_put does not test for room: a word written to a full FIFO *)
(* is lost.  fifo.exit tells how the spin ended and fifo.room how many     *)
(* entries were free at that moment.                                       *)
(***************************************************************************)
FifoLevels == 0..TxFifoDepth

FifoInit ==
    /\ EngineInit
    /\ hw.ndebug
    /\ millis \in InitTimes
    /\ cmd = CmdIdle
    /\ calc = CalcIdle
    /\ card = CardIdle
    /\ fifo = FifoIdle
    /\ timer = TimerIdle

FifoFrame == UNCHANGED <<engine_vars, hw, millis, cmd, calc, card, timer>>

\* the handler is entered: int maxwait = 1000
TxIrqEnter(level) ==
    /\ fifo.pc = "idle"
    /\ fifo' = [FifoIdle EXCEPT !.pc = "spin", !.level = level, !.maxwait = MaxWait]
    /\ FifoFrame

\* while (pio_sm_get_tx_fifo_level(SDIO_PIO, SDIO_DATA_SM) < 5)
\*     if (maxwait-- < 0) break;
TxIrqSpin ==
    /\ fifo.pc = "spin"
    /\ fifo' = IF fifo.level < TxFifoWaitLevel
               THEN IF fifo.maxwait < 0
                    THEN [fifo EXCEPT !.pc = "put", !.exit = "budget",
                                      !.room = TxFifoDepth - fifo.level,
                                      !.maxwait = @ - 1]
                    ELSE [fifo EXCEPT !.maxwait = @ - 1]
               ELSE [fifo EXCEPT !.pc = "put", !.exit = "condition",
                                 !.room = TxFifoDepth - fifo.level]
    /\ FifoFrame

\* pio_sm_put, three times: checksum high word, low word, end marker
TxIrqPut ==
    /\ fifo.pc = "put"
    /\ fifo' = [fifo EXCEPT
                   !.level = IF @ < TxFifoDepth THEN @ + 1 ELSE @,
                   !.dropped = IF fifo.level < TxFifoDepth THEN @ ELSE @ + 1,
                   !.puts = @ + 1,
                   !.pc = IF fifo.puts + 1 = 3 THEN "done" ELSE "put"]
    /\ FifoFrame

\* the state machine shifts a word out of the FIFO
PioTake ==
    /\ fifo.pc \in {"spin", "put"}
    /\ fifo.level > 0
    /\ fifo' = [fifo EXCEPT !.level = @ - 1]
    /\ FifoFrame

FifoNext ==
    \/ \E level \in FifoLevels : TxIrqEnter(level)
    \/ TxIrqSpin
    \/ TxIrqPut
    \/ PioTake

TxFifoSpec == FifoInit /\ [][FifoNext]_vars

(***************************************************************************)
(* The transfer timeout against the clock: a session of one block is armed *)
(* at any time of the 32-bit millisecond clock, the clock advances by any  *)
(* amount below 2^32 ms with no block arriving, and the session is polled  *)
(* once.  timer.elapsed is the time that truly went by, <<high 16 bits,    *)
(* low 16 bits>>.                                                          *)
(***************************************************************************)
ClockStarts ==
    {<<hi, lo>> : hi \in {0, 1, 32768, Two16 - 1},
                  lo \in {0, 1, TransferTimeoutMs, Two16 - TransferTimeoutMs - 1,
                          Two16 - TransferTimeoutMs, Two16 - 1}}

ClockElapsed ==
    {<<0, lo>> : lo \in {0, 1, TransferTimeoutMs - 1, TransferTimeoutMs,
                         TransferTimeoutMs + 1, TransferTimeoutMs + 2, Two16 - 1}}
    \cup {<<hi, lo>> : hi \in {1, 32768, Two16 - 1},
                       lo \in {0, TransferTimeoutMs, Two16 - TransferTimeoutMs, Two16 - 1}}

\* millis() after e more milliseconds
Add32Pair(a, e) == Add32(<<(a[1] + e[1]) % Two16, a[2]>>, e[2])

ClockInit ==
    /\ EngineInit
    /\ hw.ndebug
    /\ millis \in ClockStarts
    /\ cmd = CmdIdle
    /\ calc = CalcIdle
    /\ card = CardIdle
    /\ fifo = FifoIdle
    /\ timer = TimerIdle

ClockFrame == UNCHANGED <<pc, local, ret, bytes_complete, vectactive, cmd, calc, card, fifo>>

\* rp2040_sdio_rx_start(buf, 1) or rp2040_sdio_tx_start(buf, 1)
ClockArm(d) ==
    /\ timer.pc = "idle"
    /\ Commit(IF d = "rx"
              THEN rp2040_sdio_rx_start(Machine, 1, millis, vectactive)
              ELSE rp2040_sdio_tx_start(Machine, 1, millis, vectactive))
    /\ timer' = [timer EXCEPT !.pc = "armed", !.d = d]
    /\ UNCHANGED millis
    /\ ClockFrame

\* e milliseconds go by
ClockAdvance(e) ==
    /\ timer.pc = "armed"
    /\ millis' = Add32Pair(millis, e)
    /\ timer' = [timer EXCEPT !.pc = "advanced", !.elapsed = e]
    /\ UNCHANGED <<g_sdio, hw, buffer, trace>>
    /\ ClockFrame

\* one call of rp2040_sdio_rx_poll or rp2040_sdio_tx_poll
ClockPoll ==
    /\ timer.pc = "advanced"
    /\ LET r == DrvPollResult(timer.d, Machine, millis)
       IN  /\ Commit(r.m)
           /\ timer' = [timer EXCEPT !.pc = "done", !.status = r.status]
    /\ UNCHANGED millis
    /\ ClockFrame

ClockNext ==
    \/ \E d \in Dirs : ClockArm(d)
    \/ \E e \in ClockElapsed : ClockAdvance(e)
    \/ ClockPoll

ClockSpec == ClockInit /\ [][ClockNext]_vars

(***************************************************************************)
(* Properties.                                                             *)
(*                                                                         *)
(* RxPollReturned / PollReturned: the last step was the return of a poll   *)
(* of a session the caller had not yet seen end.  trace.call is what was   *)
(* true when that poll was entered.                                        *)
(***************************************************************************)
RxPollReturned == trace.last = "rx_poll_ret" /\ trace.call.open

PollReturned == trace.last \in {"rx_poll_ret", "tx_poll_ret"} /\ trace.call.open

\* C1: in a receive session blocks_done never decreases (a step that stays
\* in the session leaves it equal or larger) and never exceeds total_blocks.
C1_BlocksDoneMonotoneBounded ==
    [][trace'.dir = "rx" =>
          /\ g_sdio'.blocks_done <= g_sdio'.total_blocks
          /\ (trace'.sessions = trace.sessions
                  => g_sdio'.blocks_done >= g_sdio.blocks_done)]_vars

\* C2 as stated: a receive poll entered before the handler of the last block
\* has fired returns SDIO_BUSY, and one entered after it returns a terminal
\* status.
C2_BusyBeforeLastHandler ==
    RxPollReturned =>
        /\ (~trace.call.fired => ret = "SDIO_BUSY")
        /\ (trace.call.fired => ret \in Terminal)

\* C2 amended: a receive poll that returns while the handler of the last
\* block has still not fired returns SDIO_BUSY, or SDIO_ERR_DATA_TIMEOUT
\* when it found the budget exceeded; a poll entered after that handler has
\* fired returns SDIO_OK or SDIO_ERR_DATA_CRC; and whenever the status is
\* terminal the engine is idle, so the caller polls no further.
C2_BusyUntilLastHandlerOrTimeout ==
    RxPollReturned =>
        /\ (~trace.last_fired =>
               \/ ret = "SDIO_BUSY"
               \/ ret = "SDIO_ERR_DATA_TIMEOUT" /\ trace.seen_expired)
        /\ (trace.call.fired => ret \in {"SDIO_OK", "SDIO_ERR_DATA_CRC"})
        /\ (ret \in Terminal => g_sdio.transfer_state = "SDIO_IDLE" /\ ~trace.open)

\* C2, the case: a session of the largest size whose last handler had fired
\* when the poll was entered, and the poll returned SDIO_OK.
C2_TerminalAfterLastHandler ==
    /\ RxPollReturned
    /\ trace.call.fired
    /\ g_sdio.total_blocks = SDIO_MAX_BLOCKS
    /\ ret = "SDIO_OK"

\* C3: when a receive poll returns SDIO_OK for a session armed with n >= 1
\* blocks, the *bytes_complete it stored in that call is n * 512.
C3_BytesCompleteAtOk ==
    RxPollReturned /\ ret = "SDIO_OK" /\ g_sdio.total_blocks >= 1
        => bytes_complete = g_sdio.total_blocks * BlockBytes

\* C4: a receive poll entered with transfer_state idle returns with every
\* completed block verified (blocks_checksumed = blocks_done), and returns
\* SDIO_OK iff no completed block's computed checksum differs from the
\* recorded one, else SDIO_ERR_DATA_CRC.
C4_IdlePollVerifiesAll ==
    RxPollReturned /\ trace.call.idle =>
        LET done == {i \in Blocks : i < g_sdio.blocks_done}
            bad  == {i \in done : CrcOf[buffer[i]] # g_sdio.block_checksums[i]}
        IN  /\ g_sdio.blocks_checksumed = g_sdio.blocks_done
            /\ ret = IF bad = {} THEN "SDIO_OK" ELSE "SDIO_ERR_DATA_CRC"

\* C5: a poll (either direction) that finds the session still in flight with
\* more than 1000 ms elapsed since arming returns SDIO_ERR_DATA_TIMEOUT; a
\* poll returns that status in no other case; and on such a return the DMA
\* channel is aborted, the state machine disabled, the data pins inputs and
\* transfer_state idle.
C5_TimeoutStopsHardware ==
    PollReturned =>
        /\ (trace.seen_expired <=> ret = "SDIO_ERR_DATA_TIMEOUT")
        /\ (ret = "SDIO_ERR_DATA_TIMEOUT" =>
               /\ ~hw.dma_busy
               /\ ~hw.sm_enabled
               /\ ~hw.pins_out
               /\ g_sdio.transfer_state = "SDIO_IDLE")

\* C5, the case: a transmit poll returned the timeout after a block had been
\* handled and the next one armed.
C5_TimeoutReturned ==
    /\ PollReturned
    /\ trace.dir = "tx"
    /\ ret = "SDIO_ERR_DATA_TIMEOUT"
    /\ g_sdio.blocks_done >= 1

\* C6: interrupt mode and polling mode give the same session state for the
\* same timeline of DMA completions.  With the interrupt the handler has run
\* for every completion before the thread goes on, so at the return of a
\* poll during which no block completed, blocks_done is the number of
\* completions and, in reception, the recorded checksums are those the card
\* sent, in order; the same must hold for a session armed in a handler.
C6_ModesAgree ==
    PollReturned /\ trace.call.events = trace.dma_events =>
        /\ g_sdio.blocks_done = trace.dma_events
        /\ (trace.dir = "rx" =>
               \A i \in Blocks : i < trace.dma_events
                   => g_sdio.block_checksums[i] = trace.timeline[i + 1])

\* C7: the handler runs exactly once for each DMA completion: never more
\* often than blocks have completed, and at the return of a poll during
\* which no block completed, once for every completion so far.
C7_HandlerOncePerCompletion ==
    /\ trace.handler_runs <= trace.dma_events
    /\ (PollReturned /\ trace.call.events = trace.dma_events
            => trace.handler_runs = trace.dma_events)

\* C8: in a session armed from a fault context, a poll entered while the
\* completion flag of the DMA channel is raised dispatches the handler
\* itself.
C8_PollDispatchesHandler ==
    PollReturned /\ g_sdio.inside_irq_handler /\ trace.call.intr
        => trace.handler_runs > trace.call.runs

\* C9: while the DMA transfer of block 0 of a transmit session is launched,
\* the checksum of block 0 has been computed and stored (blocks_checksumed
\* is at least 1).
C9_FirstChecksumBeforeDma ==
    g_sdio.transfer_state = "SDIO_TX" /\ hw.dma_busy /\ hw.dma_block = 0
        => g_sdio.blocks_checksumed >= 1 /\ 0 \in trace.computed

\* C10: in a transmit session no assertion of sdio_start_next_block_tx has
\* been false, and the handler has sent no checksum slot that was not
\* computed in this session.
C10_ChecksumsStayAhead ==
    trace.dir = "tx" => ~trace.assert_violated /\ ~trace.sent_uncomputed

(***************************************************************************)
(* Properties of the command channel (CmdSpec).                            *)
(*                                                                         *)
(* R1Answered: rp2040_sdio_command_R1 was called with a response pointer,  *)
(* the whole two-word reply reached the RX FIFO and the call has returned. *)
(* cmd.wire is the reply as it was on the line.                            *)
(***************************************************************************)
R1Answered ==
    cmd.pc = "done" /\ cmd.fn = "R1" /\ cmd.want /\ cmd.arrived = 2

\* The CRC field of a reply (its last byte with the end bit masked) agrees
\* with the bit-serial CRC7 of its first five bytes.
ReplyCrcGood(r) ==
    LET b == ReplyBytes(r)
    IN  2 * StdCrc7(0, SubSeq(b, 1, 5), 1) = b[6] - (b[6] % 2)

\* C11: rp2040_sdio_command_R1 with a response requested classifies every
\* reply that arrived: a CRC7 that differs from the reply's CRC field (low
\* bit masked) gives SDIO_ERR_RESPONSE_CRC, whatever the echoed index is;
\* else an echoed index other than the command sent, the command not being
\* 41, gives SDIO_ERR_RESPONSE_CODE; else SDIO_OK with *response the 32-bit
\* payload.  *response is written only on SDIO_OK.
C11_R1Classification ==
    R1Answered =>
        LET b == ReplyBytes(cmd.wire)
        IN  IF ~ReplyCrcGood(cmd.wire)
            THEN cmd.status = "SDIO_ERR_RESPONSE_CRC" /\ cmd.response = <<>>
            ELSE IF b[1] # cmd.command /\ cmd.command # 41
            THEN cmd.status = "SDIO_ERR_RESPONSE_CODE" /\ cmd.response = <<>>
            ELSE cmd.status = "SDIO_OK"
                 /\ cmd.response = <<b[2], b[3], b[4], b[5]>>

\* C11, the case of precedence: a reply with a foreign index and a bad CRC
\* was answered with SDIO_ERR_RESPONSE_CRC.
C11_BadCrcForeignIndex ==
    /\ R1Answered
    /\ ~ReplyCrcGood(cmd.wire)
    /\ cmd.wire[1][1] # cmd.command /\ cmd.command # 41
    /\ cmd.status = "SDIO_ERR_RESPONSE_CRC"

\* The reply a card gives to the command of the call in progress: the
\* command's index as echo and the CRC7 computed over the reply.
MatchingReplies(c) == {CardReply(c.command, p) : p \in ReplyPayloads}

\* What rp2040_sdio_command_R1 returns for reply r.
R1StatusOf(c, r) ==
    R1_read([c |-> [c EXCEPT !.rx_fifo = r, !.response = <<>>], h |-> hw]).c

\* The status of reply good with byte j replaced by v.  The generator
\* polynomial is 0x89: a change of one of the first five bytes by exactly
\* that pattern leaves the CRC7 as it was, and the end bit of the last byte
\* is not part of the CRC field.
R1ExpectedAfterReplace(c, good, j, v) ==
    LET old == ReplyBytes(good)[j]
    IN  IF v = old THEN "SDIO_OK"
        ELSE IF j = 6
        THEN (IF v \div 2 = old \div 2 THEN "SDIO_OK" ELSE "SDIO_ERR_RESPONSE_CRC")
        ELSE IF Xor8(v, old) # 137 THEN "SDIO_ERR_RESPONSE_CRC"
        ELSE IF j = 1 /\ c.command # 41 THEN "SDIO_ERR_RESPONSE_CODE"
        ELSE "SDIO_OK"

\* C12 as stated: a matching reply is answered with SDIO_OK, and the same
\* reply with any single byte replaced by any different value is answered
\* with SDIO_ERR_RESPONSE_CRC.
C12_AnyReplacedByteIsCrcError ==
    R1Answered =>
        \A good \in MatchingReplies(cmd) :
            /\ cmd.wire = good => cmd.status = "SDIO_OK"
            /\ \A j \in 1..6 :
                   (cmd.wire # good /\ cmd.wire = ReplaceByte(good, j, ReplyBytes(cmd.wire)[j]))
                       => cmd.status = "SDIO_ERR_RESPONSE_CRC"

\* C12, amended: a matching reply is answered with SDIO_OK and its payload.
\* With one byte replaced it is answered with SDIO_ERR_RESPONSE_CRC, except
\* when one of the first five bytes changes by exactly the bit pattern 0x89
\* or only the end bit of the last byte changes: those replies pass the CRC
\* check.  This holds of the reply that was received, and of every
\* replacement of every byte of a matching reply by every value 0..255.
C12_ReplacedByteIsCrcErrorUnlessInvisible ==
    R1Answered =>
        \A good \in MatchingReplies(cmd) :
            /\ cmd.wire = good =>
                   /\ cmd.status = "SDIO_OK"
                   /\ cmd.response = SubSeq(ReplyBytes(good), 2, 5)
                   /\ \A j \in 1..6, v \in 0..255 :
                          R1StatusOf(cmd, ReplaceByte(good, j, v)).status
                              = R1ExpectedAfterReplace(cmd, good, j, v)
            /\ \A j \in 1..6 :
                   cmd.wire = ReplaceByte(good, j, ReplyBytes(cmd.wire)[j])
                       => cmd.status
                              = R1ExpectedAfterReplace(cmd, good, j, ReplyBytes(cmd.wire)[j])

\* C12: a matching reply with one bit of its CRC field flipped was
\* answered with SDIO_ERR_RESPONSE_CRC.
C12_DamagedReplyRejected ==
    /\ R1Answered
    /\ \E good \in MatchingReplies(cmd) :
           cmd.wire = ReplaceByte(good, 6, Xor8(ReplyBytes(good)[6], 16))
    /\ cmd.status = "SDIO_ERR_RESPONSE_CRC"

\* The words a command function waits for.
WordsAwaited(c) ==
    IF c.fn = "R2" THEN 5 ELSE IF c.fn = "R1" /\ ~c.want THEN 1 ELSE 2

\* The call has returned without its reply: nothing arrived, or less than
\* the function waits for.
ReturnedUnanswered ==
    cmd.pc = "done" /\ cmd.arrived < WordsAwaited(cmd)

\* C13: a call of rp2040_sdio_command_R1, _R2 or _R3 whose reply does not
\* arrive returns SDIO_ERR_RESPONSE_TIMEOUT, and only after the clock has
\* moved more than 2 ms past the start of the wait; and as long as the clock
\* advances no call waits forever.
C13_NoReplyTimesOut ==
    /\ [](ReturnedUnanswered =>
              /\ cmd.status = "SDIO_ERR_RESPONSE_TIMEOUT"
              /\ cmd.saw_expired
              /\ Gt32(Sub32(millis, cmd.start), CommandTimeoutMs))
    /\ (cmd.pc = "wait") ~> (cmd.pc = "done")

\* C13: an R3 call that got no word of reply has returned after the clock
\* wrapped around.
C13_TimedOutAcrossWrap ==
    /\ ReturnedUnanswered
    /\ cmd.fn = "R3" /\ cmd.arrived = 0
    /\ cmd.status = "SDIO_ERR_RESPONSE_TIMEOUT"
    /\ millis[1] = 0 /\ cmd.start[1] = Two16 - 1

\* C14: when a command function has returned SDIO_ERR_RESPONSE_TIMEOUT, the
\* FIFOs of the command state machine are empty and the state machine is
\* back at the entry point of its program; for rp2040_sdio_command_R2 the
\* DMA channel that captures the reply is not left busy.
C14_TimeoutRecoversChannel ==
    (cmd.pc = "done" /\ cmd.status = "SDIO_ERR_RESPONSE_TIMEOUT") =>
        /\ cmd.tx_fifo = <<>>
        /\ cmd.rx_fifo = <<>>
        /\ cmd.sm = "entry"
        /\ cmd.fn = "R2" => ~hw.dma_busy

\* C14: rp2040_sdio_command_R2 has timed out with the DMA stopped, after
\* one word of the reply had been captured.
C14_R2TimedOutMidReply ==
    /\ cmd.pc = "done" /\ cmd.fn = "R2"
    /\ cmd.status = "SDIO_ERR_RESPONSE_TIMEOUT"
    /\ cmd.arrived = 1 /\ Len(cmd.response_buf) = 1
    /\ ~hw.dma_busy

\* The six bytes of the command frame carried by the two words w.
FrameBytes(w) == <<w[1][2], w[1][3], w[1][4], w[2][1], w[2][2], w[2][3]>>

\* The command frame of the SD specification: 0x40 | index, the argument
\* most significant byte first, then the CRC7 of those five bytes shifted
\* left by one with the end bit set.
StdFrame(command, arg) ==
    LET head == <<64 + (command % 64)>> \o arg
    IN  head \o <<2 * StdCrc7(0, head, 1) + 1>>

\* Arguments with a single bit set, a single byte set, and all bits set.
ArgSamples ==
    CmdArgs \cup {<<255, 255, 255, 255>>}
        \cup {[i \in 1..4 |-> IF i = j THEN v ELSE 0] :
                  j \in 1..4, v \in {1, 2, 4, 8, 16, 32, 64, 128, 255}}

\* C18: the two words sdio_send_command queues carry the frame of the SD
\* specification: first byte 0x40 | index, the argument big-endian, and in
\* the sixth byte the standard CRC7 (x^7 + x^3 + 1, initial value 0) of the
\* five bytes before, shifted left by one, with the end bit set.  This holds
\* of the words queued by the call and, for the index of the call, of the
\* words built for every sampled argument.
C18_FrameCarriesStdCrc7 ==
    (Len(cmd.tx_fifo) = 2 /\ cmd.command <= 63) =>
        /\ FrameBytes(cmd.tx_fifo) = StdFrame(cmd.command, cmd.arg)
        /\ \A arg \in ArgSamples :
               FrameBytes(command_words(cmd.command, arg, 48))
                   = StdFrame(cmd.command, arg)

\* C18: CMD0 with argument 0 is queued as the frame 40 00 00 00 00 95.
C18_Cmd0Frame ==
    /\ Len(cmd.tx_fifo) = 2
    /\ cmd.command = 0 /\ cmd.arg = <<0, 0, 0, 0>>
    /\ FrameBytes(cmd.tx_fifo) = <<64, 0, 0, 0, 0, 149>>

\* C20: rp2040_sdio_command_R3 checks neither the CRC nor the index of the
\* reply: when both words of a reply have arrived it returns SDIO_OK with
\* *response the 32-bit payload, whatever the other bytes are; the only
\* other status it returns is SDIO_ERR_RESPONSE_TIMEOUT, and then without
\* writing *response.
C20_R3AcceptsAnyReply ==
    (cmd.pc = "done" /\ cmd.fn = "R3") =>
        IF cmd.arrived = 2
        THEN /\ cmd.status = "SDIO_OK"
             /\ cmd.response = SubSeq(ReplyBytes(cmd.wire), 2, 5)
        ELSE /\ cmd.status = "SDIO_ERR_RESPONSE_TIMEOUT"
             /\ cmd.response = <<>>

\* C20: a reply with a foreign index and a bad CRC was accepted.
C20_BadReplyAccepted ==
    /\ cmd.pc = "done" /\ cmd.fn = "R3" /\ cmd.arrived = 2
    /\ ~ReplyCrcGood(cmd.wire)
    /\ cmd.wire[1][1] # cmd.command
    /\ cmd.status = "SDIO_OK"

C19_Crc16MatchesPerLineReference ==
    calc.pc = "done" => calc.result = StdCrc16x4(calc.data)

\* C19: the checksum of two words, the first with a single bit set, has
\* been computed and is not zero.
C19_TwoWordsChecksummed ==
    /\ calc.pc = "done"
    /\ calc.data = << <<0, 0, 0, 0, 0, 0, 0, 1>>, <<1, 2, 3, 4, 5, 6, 7, 8>> >>
    /\ calc.result # Zero64
    /\ calc.result = StdCrc16x4(calc.data)

(***************************************************************************)
(* Properties of the card driver (DriverSpec).                             *)
(***************************************************************************)
\* C15: at most one transfer session is active at a time: whatever the
\* sequence of readSector, readSectors, writeSector and writeSectors calls
\* and whatever fails, rp2040_sdio_rx_start and rp2040_sdio_tx_start are
\* called only while transfer_state is SDIO_IDLE.
C15_StartOnlyWhenIdle ==
    card.start_state \in {"none", "SDIO_IDLE"}

\* C16 as stated: the card driver issues no command while transfer_state
\* is SDIO_RX or SDIO_TX.
C16_NoCommandDuringSession ==
    card.issue_state \in {"none", "SDIO_IDLE"}

\* C16, amended: the card driver issues no command while transfer_state is
\* SDIO_TX.  While it is SDIO_RX the driver issues the read command (CMD17
\* or CMD18) that follows rp2040_sdio_rx_start in the same operation; any
\* other command issued during SDIO_RX finds a session that an earlier
\* operation left armed when its read command failed.
C16_OnlyReadCommandDuringReception ==
    /\ card.issue_state # "SDIO_TX"
    /\ card.issue_state = "SDIO_RX" =>
           \/ card.issue_index \in {17, 18} /\ card.issue_after_start
           \/ card.issue_left_armed

\* C16: CMD17 has been issued with the reception armed by the same
\* readSector, and no operation before left a session armed.
C16_ReadCommandAfterArming ==
    /\ card.pc = "cmd_wait" /\ card.op = "readSector"
    /\ card.issue_index = 17 /\ card.issue_after_start
    /\ card.issue_state = "SDIO_RX"
    /\ ~card.issue_left_armed

(***************************************************************************)
(* Properties of the transfer engine, continued (Spec).                    *)
(*                                                                         *)
(* PollStep: the step is one of the thread's steps inside rp2040_sdio_rx_  *)
(* poll or rp2040_sdio_tx_poll other than the call of rp2040_sdio_stop in  *)
(* the timeout branch.  Only the thread's steps change pc.                 *)
(***************************************************************************)
PollPcs == {d \o s : d \in Dirs, s \in {"_poll_bytes", "_poll_state", "_poll_stop"}}

PollStep ==
    /\ pc' # pc
    /\ pc \in PollPcs \cup {"idle"}
    /\ pc' \in PollPcs \cup {"idle"}
    /\ pc \notin {"rx_poll_stop", "tx_poll_stop"}

\* C21: in a session armed outside a handler, no step of a poll that returns
\* SDIO_BUSY, SDIO_OK or SDIO_ERR_DATA_CRC changes blocks_done, transfer_state
\* or the arming of the DMA channel, and blocks_done advances within a session
\* only in a step of the delivered DMA interrupt.
C21_PollDoesNotAdvance ==
    [][~g_sdio.inside_irq_handler =>
          /\ (PollStep =>
                 /\ g_sdio'.blocks_done = g_sdio.blocks_done
                 /\ g_sdio'.transfer_state = g_sdio.transfer_state
                 /\ hw'.dma_busy = hw.dma_busy
                 /\ hw'.dma_block = hw.dma_block)
          /\ ((trace'.sessions = trace.sessions
                  /\ g_sdio'.blocks_done # g_sdio.blocks_done)
                  => /\ IrqDeliverable
                     /\ pc' = pc
                     /\ trace'.handler_runs = trace.handler_runs + 1)]_vars

\* C21, the case: a poll of a two-block session armed from the thread
\* returned SDIO_BUSY after the interrupt had advanced it to the second block.
C21_BusyPollBetweenBlocks ==
    /\ PollReturned
    /\ ret = "SDIO_BUSY"
    /\ ~g_sdio.inside_irq_handler
    /\ g_sdio.total_blocks = 2
    /\ g_sdio.blocks_done = 1
    /\ hw.dma_busy /\ hw.dma_block = 1

\* C22: a receive poll that returns SDIO_BUSY has advanced blocks_checksumed
\* by at most one block since it was entered, and a poll that advanced it by
\* more than one found the session idle (it returns SDIO_OK or
\* SDIO_ERR_DATA_CRC with transfer_state idle).
C22_BusyPollVerifiesAtMostOne ==
    RxPollReturned =>
        LET verified == g_sdio.blocks_checksumed - trace.call.checksumed
        IN  /\ verified >= 0
            /\ (ret = "SDIO_BUSY" => verified <= 1)
            /\ (verified > 1 =>
                   /\ ret \in {"SDIO_OK", "SDIO_ERR_DATA_CRC"}
                   /\ g_sdio.transfer_state = "SDIO_IDLE")

\* C22, the case: a poll entered with two received blocks not yet verified
\* and a third still in flight returned SDIO_BUSY having verified one.
C22_BusyPollWithTwoPending ==
    /\ RxPollReturned
    /\ ret = "SDIO_BUSY"
    /\ g_sdio.blocks_done = 2
    /\ trace.call.checksumed = 0
    /\ g_sdio.blocks_checksumed = 1

(***************************************************************************)
(* Properties of the transmit completion handler (TxFifoSpec).             *)
(***************************************************************************)
\* C23: when the spin of rp2040_sdio_tx_irq ends because of its wait
\* condition, the TX FIFO has room for three more words, and the checksum
\* words and the end marker written next are all taken by the FIFO.
C23_SpinEndsWithRoomForChecksum ==
    fifo.exit = "condition" =>
        /\ fifo.room >= 3
        /\ fifo.dropped = 0

\* C24: when SdioCard::readSectors or writeSectors has returned after its
\* poll loop, it returned true only if the loop ended with SDIO_OK; if the
\* loop ended with SDIO_ERR_DATA_CRC or SDIO_ERR_DATA_TIMEOUT the operation
\* returned false and g_sdio_error (errorCode()) is that status, whatever
\* the CMD12 that followed returned.
C24_MultiBlockResultFollowsTransfer ==
    /\ card.pc = "idle"
    /\ card.op \in {"readSectors", "writeSectors"}
    /\ card.loop_status # "none"
    => /\ (card.result = "true" => card.loop_status = "SDIO_OK")
       /\ (card.loop_status \in {"SDIO_ERR_DATA_CRC", "SDIO_ERR_DATA_TIMEOUT"} =>
               /\ card.result = "false"
               /\ card.g_sdio_error = card.loop_status)

\* C25: a poll (either direction) of a session armed with at least one block
\* returns SDIO_OK only with blocks_done = total_blocks; in particular not
\* after the session was ended by a timeout or by rp2040_sdio_stop with
\* fewer blocks completed.
C25_OkOnlyWhenAllBlocksDone ==
    /\ trace.last \in {"rx_poll_ret", "tx_poll_ret"}
    /\ ret = "SDIO_OK"
    /\ g_sdio.total_blocks >= 1
    => g_sdio.blocks_done = g_sdio.total_blocks

\* C26: every run of a completion handler (the steps in which
\* trace.handler_runs advances) accesses block_checksums at an index
\* blocks_done with blocks_done < total_blocks <= SDIO_MAX_BLOCKS, for every
\* block count 0..SDIO_MAX_BLOCKS given to a start function.
C26_HandlerIndexBelowTotal ==
    [][trace'.handler_runs = trace.handler_runs + 1 =>
          /\ g_sdio.blocks_done < g_sdio.total_blocks
          /\ g_sdio.total_blocks <= SDIO_MAX_BLOCKS]_vars

\* C27: a DMA completion interrupt delivered while transfer_state is idle
\* (the session was stopped, directly or by a poll timeout, with the
\* completion still pending) leaves g_sdio as it is (blocks_done,
\* blocks_checksumed, block_checksums, transfer_state) and arms neither the
\* DMA channel nor the data state machine.  The step of the delivered
\* interrupt is the one that clears the completion flag and leaves the
\* thread where it is.
C27_LateInterruptIgnored ==
    [][/\ hw.dma_intr /\ ~hw'.dma_intr /\ pc' = pc
       /\ g_sdio.transfer_state = "SDIO_IDLE"
       => /\ g_sdio' = g_sdio
          /\ hw'.dma_busy = hw.dma_busy
          /\ hw'.dma_block = hw.dma_block
          /\ hw'.sm_enabled = hw.sm_enabled]_vars

\* C27, the case: a block completed in a session armed inside a handler, the
\* session was stopped, and after the handler returned the interrupt was
\* delivered: the flag is cleared, no handler has run and nothing is armed.
C27_LateInterruptDelivered ==
    /\ trace.dma_events = 1
    /\ trace.handler_runs = 0
    /\ ~hw.dma_intr
    /\ ~vectactive
    /\ g_sdio.transfer_state = "SDIO_IDLE"
    /\ g_sdio.total_blocks >= 1
    /\ g_sdio.blocks_done = 0
    /\ ~hw.dma_busy /\ ~hw.sm_enabled

(***************************************************************************)
(* Properties of the transfer timeout (ClockSpec).                         *)
(***************************************************************************)
\* C28: the poll of a session in flight reports SDIO_ERR_DATA_TIMEOUT if and
\* only if more than 1000 ms have truly elapsed since arming, for every
\* start time and every elapsed time below 2^32 ms, also when the clock has
\* wrapped in between.
C28_TimeoutExactAcrossWrap ==
    timer.pc = "done" =>
        (timer.status = "SDIO_ERR_DATA_TIMEOUT"
            <=> (timer.elapsed[1] > 0 \/ timer.elapsed[2] > TransferTimeoutMs))

\* C28, the case: a session armed 1000 ms before the clock wraps was polled
\* 1001 ms later, after the wrap, and the poll reported the timeout.
C28_TimeoutJustAfterWrap ==
    /\ timer.pc = "done"
    /\ g_sdio.transfer_start_time = <<Two16 - 1, Two16 - TransferTimeoutMs>>
    /\ timer.elapsed = <<0, TransferTimeoutMs + 1>>
    /\ millis = <<0, 1>>
    /\ timer.status = "SDIO_ERR_DATA_TIMEOUT"

\* C29: in a receive session blocks_checksumed never exceeds blocks_done,
\* blocks_done is the number of handler runs of the session, and every block
\* verified so far was compared with the checksum the handler recorded for
\* it in this session: slot i holds the checksum that came with the i-th
\* completed block.
C29_VerifiedOnlyAfterRecorded ==
    trace.dir = "rx" =>
        /\ g_sdio.blocks_checksumed <= g_sdio.blocks_done
        /\ g_sdio.blocks_done = trace.handler_runs
        /\ trace.handler_runs <= trace.dma_events
        /\ \A i \in Blocks :
               i < g_sdio.blocks_checksumed
                   => g_sdio.block_checksums[i] = trace.timeline[i + 1]

\* C29, the case: with the third block of a session still in flight, polls
\* have verified both blocks received so far.
C29_VerificationCaughtUp ==
    /\ RxPollReturned
    /\ ret = "SDIO_BUSY"
    /\ g_sdio.total_blocks = 3
    /\ g_sdio.blocks_done = 2
    /\ g_sdio.blocks_checksumed = 2
    /\ g_sdio.transfer_state = "SDIO_RX"

====
